---- MODULE Spec2Model ----
(***************************************************************************)
(* American Mahjong hand calculator: the Hand Evaluator                    *)
(* (backend/src/mahjong/hand_evaluator.py) and the Recommendation Engine   *)
(* (backend/src/mahjong/tile_calculator.py).                               *)
(*                                                                         *)
(* A tile is the Python string of the source, kept as its sequence of      *)
(* one-character strings ("1B" is <<"1","B">>, "2024" is                   *)
(* <<"2","0","2","4">>), so that tile[0], tile[-1], endswith(), isdigit()  *)
(* and int() are computed as the code computes them.  A pattern string is  *)
(* kept the same way, blanks included.                                     *)
(***************************************************************************)
EXTENDS Integers, Sequences, FiniteSets, TLC

VARIABLES tiles, hashSeed, call, ret, hand_analysis

vars == <<tiles, hashSeed, call, ret, hand_analysis>>

(***************************************************************************)
(* Python primitives                                                       *)
(***************************************************************************)

\* str(n) for a one-digit number, and its inverse int(c)
Digits == <<"0", "1", "2", "3", "4", "5", "6", "7", "8", "9">>

DigitChar(n) == Digits[n + 1]

IsDigitChar(c) == \E i \in DOMAIN Digits : Digits[i] = c

IntOfChar(c) == (CHOOSE i \in DOMAIN Digits : Digits[i] = c) - 1

\* str.isdigit(): non-empty and every character a digit
IsDigit(s) == Len(s) > 0 /\ \A i \in DOMAIN s : IsDigitChar(s[i])

\* tile.endswith(('B', 'C', 'D'))
SuitLetters == {"B", "C", "D"}

EndsWithSuit(t) == Len(t) > 0 /\ t[Len(t)] \in SuitLetters

\* int(tile[0]) and tile[-1]
TileNumber(t) == IntOfChar(t[1])

TileSuit(t) == t[Len(t)]

\* f"{number}{suit}"
Numbered(n, s) == <<DigitChar(n), s>>

\* x in list
InList(x, list) == \E i \in DOMAIN list : list[i] = x

\* list.count(x), Counter(list)[x]
CountOf(list, x) == Cardinality({i \in DOMAIN list : list[i] = x})

\* the keys of Counter(list) / of a dict filled in list order: the distinct
\* elements in order of first occurrence
RECURSIVE Keys(_)
Keys(list) ==
  IF list = <<>> THEN <<>>
  ELSE LET rest == Keys(SubSeq(list, 1, Len(list) - 1))
           x == list[Len(list)]
       IN IF InList(x, rest) THEN rest ELSE Append(rest, x)

\* set(list)
Elems(list) == {list[i] : i \in DOMAIN list}

\* sum of a sequence of numbers
RECURSIVE Sum(_)
Sum(list) == IF list = <<>> THEN 0 ELSE Head(list) + Sum(Tail(list))

\* max of a non-empty sequence of numbers
Max(list) == CHOOSE m \in Elems(list) : \A x \in Elems(list) : x <= m

\* list[:n]
Take(list, n) == SubSeq(list, 1, IF Len(list) < n THEN Len(list) ELSE n)

\* n repetitions of x: [x] * n
Rep(x, n) == [i \in 1..n |-> x]

(***************************************************************************)
(* Tile model: HandEvaluator.__init__                                      *)
(***************************************************************************)

\* the values of self.valid_tiles, in dict order, concatenated as
\* _validate_tiles concatenates them
valid_tiles ==
  [i \in 1..9 |-> Numbered(i, "B")] \o
  [i \in 1..9 |-> Numbered(i, "C")] \o
  [i \in 1..9 |-> Numbered(i, "D")] \o
  << <<"E">>, <<"S">>, <<"W">>, <<"N">> >> \o
  << <<"R">>, <<"G">>, <<"0">> >> \o
  << <<"F">> >> \o
  << <<"2","0","2","4">> >>

Winds == << <<"E">>, <<"S">>, <<"W">>, <<"N">> >>

Dragons == << <<"R">>, <<"G">>, <<"0">> >>

Flower == <<"F">>

YearTile == <<"2","0","2","4">>

\* a slip: the dragons of Cracks and Bams exchanged
dragon_associations_Exchanged(suit) ==
  CASE suit = "C" -> <<"G">>
    [] suit = "B" -> <<"R">>
    [] suit = "D" -> <<"0">>

\* self.dragon_associations: suit letter -> dragon tile
dragon_associations(suit) ==
  CASE suit = "C" -> <<"R">>
    [] suit = "B" -> <<"G">>
    [] suit = "D" -> <<"0">>

(***************************************************************************)
(* Pattern catalogue: HandEvaluator.year_rules[2024]['patterns'], in dict  *)
(* order.  specific_numbers is <<>> where the entry has no such key        *)
(* (pattern_info.get('specific_numbers', [])); the keys no code reads      *)
(* (like_kongs, like_pungs, matching_numbers) are left out.                *)
(***************************************************************************)
year_rules_2024 ==
  <<
     [pattern_id |-> "2024_222_000_2222_4444",
      pattern |-> <<"2","2","2"," ","0","0","0"," ","2","2","2","2"," ","4","4","4","4">>,
      description |-> "Any 2 Suits", points |-> 25, category |-> "X",
      suit_requirement |-> "any_2_suits", joker_allowed |-> TRUE,
      specific_numbers |-> <<>>],
     [pattern_id |-> "2024_FFFF_2222_0000_24",
      pattern |-> <<"F","F","F","F"," ","2","2","2","2"," ","0","0","0","0"," ","2","4">>,
      description |-> "Any 2 Suits", points |-> 25, category |-> "X",
      suit_requirement |-> "any_2_suits", joker_allowed |-> TRUE,
      specific_numbers |-> <<>>],
     [pattern_id |-> "2024_FF_2024_2222_2222",
      pattern |-> <<"F","F"," ","2","0","2","4"," ","2","2","2","2"," ","2","2","2","2">>,
      description |-> "Any 3 Suits, Like Kongs 2s or 4s", points |-> 25, category |-> "X",
      suit_requirement |-> "any_3_suits", joker_allowed |-> TRUE,
      specific_numbers |-> <<>>],
     [pattern_id |-> "2024_NN_EEE_2024_WWW_SS",
      pattern |-> <<"N","N"," ","E","E","E"," ","2","0","2","4"," ","W","W","W"," ","S","S">>,
      description |-> "2024 Any 1 Suit", points |-> 30, category |-> "C",
      suit_requirement |-> "any_1_suit", joker_allowed |-> FALSE,
      specific_numbers |-> <<>>],
     [pattern_id |-> "2468_222_444_6666_8888",
      pattern |-> <<"2","2","2"," ","4","4","4"," ","6","6","6","6"," ","8","8","8","8">>,
      description |-> "Any 1 or 2 Suits", points |-> 25, category |-> "X",
      suit_requirement |-> "any_1_or_2_suits", joker_allowed |-> TRUE,
      specific_numbers |-> <<>>],
     [pattern_id |-> "2468_2_444_44_666_8888",
      pattern |-> <<"2"," ","4","4","4"," ","4","4"," ","6","6","6"," ","8","8","8","8">>,
      description |-> "Any 3 Suits", points |-> 25, category |-> "X",
      suit_requirement |-> "any_3_suits", joker_allowed |-> TRUE,
      specific_numbers |-> <<>>],
     [pattern_id |-> "2468_22_44_666_888_DDDD",
      pattern |-> <<"2","2"," ","4","4"," ","6","6","6"," ","8","8","8"," ","D","D","D","D">>,
      description |-> "Any 1 Suit w Matching Dragons", points |-> 25, category |-> "X",
      suit_requirement |-> "any_1_suit_matching_dragons", joker_allowed |-> TRUE,
      specific_numbers |-> <<>>],
     [pattern_id |-> "2468_FFFF_4444_666_6666",
      pattern |-> <<"F","F","F","F"," ","4","4","4","4"," ","6","6","6"," ","6","6","6","6">>,
      description |-> "Any 3 Suits", points |-> 25, category |-> "X",
      suit_requirement |-> "any_3_suits", joker_allowed |-> TRUE,
      specific_numbers |-> <<>>],
     [pattern_id |-> "2468_FF_2222_44_66_8888",
      pattern |-> <<"F","F"," ","2","2","2","2"," ","4","4"," ","6","6"," ","8","8","8","8">>,
      description |-> "Any 1 or 2 Suits", points |-> 25, category |-> "X",
      suit_requirement |-> "any_1_or_2_suits", joker_allowed |-> TRUE,
      specific_numbers |-> <<>>],
     [pattern_id |-> "2468_FF_222_44_666_88_88",
      pattern |-> <<"F","F"," ","2","2","2"," ","4","4"," ","6","6","6"," ","8","8"," ","8","8">>,
      description |-> "Any 3 Suits", points |-> 35, category |-> "C",
      suit_requirement |-> "any_3_suits", joker_allowed |-> TRUE,
      specific_numbers |-> <<>>],
     [pattern_id |-> "like_FFFF_111_1111_111",
      pattern |-> <<"F","F","F","F"," ","1","1","1"," ","1","1","1","1"," ","1","1","1">>,
      description |-> "Any 3 Suits", points |-> 25, category |-> "X",
      suit_requirement |-> "any_3_suits", joker_allowed |-> TRUE,
      specific_numbers |-> <<>>],
     [pattern_id |-> "like_11_DDD_11_DDD_1111",
      pattern |-> <<"1","1"," ","D","D","D"," ","1","1"," ","D","D","D"," ","1","1","1","1">>,
      description |-> "Any 2 Suits, Pairs and Dragons Match", points |-> 25, category |-> "X",
      suit_requirement |-> "any_2_suits_matching_dragons", joker_allowed |-> TRUE,
      specific_numbers |-> <<>>],
     [pattern_id |-> "like_FF_1111_NEWS_1111",
      pattern |-> <<"F","F"," ","1","1","1","1"," ","N","E","W","S"," ","1","1","1","1">>,
      description |-> "Any 2 Suits", points |-> 25, category |-> "X",
      suit_requirement |-> "any_2_suits", joker_allowed |-> TRUE,
      specific_numbers |-> <<>>],
     [pattern_id |-> "addition_FF_1111_6666_7777",
      pattern |-> <<"F","F"," ","1","1","1","1"," ","+"," ","6","6","6","6"," ","="," ","7","7","7","7">>,
      description |-> "Any 1 Suit", points |-> 25, category |-> "X",
      suit_requirement |-> "any_1_suit", joker_allowed |-> TRUE,
      specific_numbers |-> <<>>],
     [pattern_id |-> "addition_FF_2222_5555_7777",
      pattern |-> <<"F","F"," ","2","2","2","2"," ","+"," ","5","5","5","5"," ","="," ","7","7","7","7">>,
      description |-> "Any 1 Suit", points |-> 25, category |-> "X",
      suit_requirement |-> "any_1_suit", joker_allowed |-> TRUE,
      specific_numbers |-> <<>>],
     [pattern_id |-> "addition_FF_3333_4444_7777",
      pattern |-> <<"F","F"," ","3","3","3","3"," ","+"," ","4","4","4","4"," ","="," ","7","7","7","7">>,
      description |-> "Any 1 Suit", points |-> 25, category |-> "X",
      suit_requirement |-> "any_1_suit", joker_allowed |-> TRUE,
      specific_numbers |-> <<>>],
     [pattern_id |-> "quint_FF_11111_22_33333",
      pattern |-> <<"F","F"," ","1","1","1","1","1"," ","2","2"," ","3","3","3","3","3">>,
      description |-> "Any 1 Suit, Any 3 Consec. Nos.", points |-> 40, category |-> "X",
      suit_requirement |-> "any_1_suit", joker_allowed |-> TRUE,
      specific_numbers |-> <<>>],
     [pattern_id |-> "quint_11111_NNNN_88888",
      pattern |-> <<"1","1","1","1","1"," ","N","N","N","N"," ","8","8","8","8","8">>,
      description |-> "Any 2 Suits, Quints Any 2 Non-Matching Nos., Any Wind", points |-> 40, category |-> "X",
      suit_requirement |-> "any_2_suits", joker_allowed |-> FALSE,
      specific_numbers |-> <<>>],
     [pattern_id |-> "quint_11_22222_11_22222",
      pattern |-> <<"1","1"," ","2","2","2","2","2"," ","1","1"," ","2","2","2","2","2">>,
      description |-> "Any 2 Suits, Any 2 Consec. Nos.", points |-> 45, category |-> "X",
      suit_requirement |-> "any_2_suits", joker_allowed |-> FALSE,
      specific_numbers |-> <<>>],
     [pattern_id |-> "quint_FFFFF_DDDD_11111",
      pattern |-> <<"F","F","F","F","F"," ","D","D","D","D"," ","1","1","1","1","1">>,
      description |-> "Any 2 Suits, Quint Any No.", points |-> 40, category |-> "X",
      suit_requirement |-> "any_2_suits", joker_allowed |-> TRUE,
      specific_numbers |-> <<>>],
     [pattern_id |-> "consec_111_22_3333_44_555",
      pattern |-> <<"1","1","1"," ","2","2"," ","3","3","3","3"," ","4","4"," ","5","5","5">>,
      description |-> "These Nos. Only", points |-> 25, category |-> "X",
      suit_requirement |-> "specific_numbers", joker_allowed |-> TRUE,
      specific_numbers |-> <<1,2,3,4,5>>],
     [pattern_id |-> "consec_11_222_DDDD_333_44",
      pattern |-> <<"1","1"," ","2","2","2"," ","D","D","D","D"," ","3","3","3"," ","4","4">>,
      description |-> "Any 4 Consec. Nos. in Any 1 Suit, Kong Opp. Dragons", points |-> 25, category |-> "X",
      suit_requirement |-> "any_1_suit_opposite_dragons", joker_allowed |-> TRUE,
      specific_numbers |-> <<>>],
     [pattern_id |-> "consec_FF_1111_2222_3333",
      pattern |-> <<"F","F"," ","1","1","1","1"," ","2","2","2","2"," ","3","3","3","3">>,
      description |-> "Any 1 or 3 Suits, Any 3 Consec. Nos", points |-> 25, category |-> "X",
      suit_requirement |-> "any_1_or_3_suits", joker_allowed |-> TRUE,
      specific_numbers |-> <<>>],
     [pattern_id |-> "consec_1_22_3333_1_22_3333",
      pattern |-> <<"1"," ","2","2"," ","3","3","3","3"," ","1"," ","2","2"," ","3","3","3","3">>,
      description |-> "Any 2 Suits, Any 3 Consec. Nos.", points |-> 30, category |-> "X",
      suit_requirement |-> "any_2_suits", joker_allowed |-> TRUE,
      specific_numbers |-> <<>>],
     [pattern_id |-> "consec_11_22_333_444_DDDD",
      pattern |-> <<"1","1"," ","2","2"," ","3","3","3"," ","4","4","4"," ","D","D","D","D">>,
      description |-> "Any 1 Suit, Any 4 Consec. Nos. w Matching Dragons", points |-> 25, category |-> "X",
      suit_requirement |-> "any_1_suit_matching_dragons", joker_allowed |-> TRUE,
      specific_numbers |-> <<>>],
     [pattern_id |-> "consec_FFFFF_123_444_444",
      pattern |-> <<"F","F","F","F","F"," ","1","2","3"," ","4","4","4"," ","4","4","4">>,
      description |-> "Any 3 Suits, Any 4 Consec. Nos.", points |-> 30, category |-> "X",
      suit_requirement |-> "any_3_suits", joker_allowed |-> TRUE,
      specific_numbers |-> <<>>],
     [pattern_id |-> "consec_111_222_3333_4444",
      pattern |-> <<"1","1","1"," ","2","2","2"," ","3","3","3","3"," ","4","4","4","4">>,
      description |-> "Any 1 or 2 Suits, Any 4 Consec. Nos.", points |-> 30, category |-> "C",
      suit_requirement |-> "any_1_or_2_suits", joker_allowed |-> TRUE,
      specific_numbers |-> <<>>],
     [pattern_id |-> "consec_111_222_111_222_33",
      pattern |-> <<"1","1","1"," ","2","2","2"," ","1","1","1"," ","2","2","2"," ","3","3">>,
      description |-> "Any 3 Suits, Any 3 Consec. Nos.", points |-> 30, category |-> "C",
      suit_requirement |-> "any_3_suits", joker_allowed |-> TRUE,
      specific_numbers |-> <<>>],
     [pattern_id |-> "13579_111_33_5555_77_999",
      pattern |-> <<"1","1","1"," ","3","3"," ","5","5","5","5"," ","7","7"," ","9","9","9">>,
      description |-> "Any 1 or 3 Suits", points |-> 25, category |-> "X",
      suit_requirement |-> "any_1_or_3_suits", joker_allowed |-> TRUE,
      specific_numbers |-> <<>>],
     [pattern_id |-> "13579_111_333_3333_5555",
      pattern |-> <<"1","1","1"," ","3","3","3"," ","3","3","3","3"," ","5","5","5","5">>,
      description |-> "Any 2 or 3 Suits", points |-> 25, category |-> "X",
      suit_requirement |-> "any_2_or_3_suits", joker_allowed |-> TRUE,
      specific_numbers |-> <<>>],
     [pattern_id |-> "13579_FF_11_333_5555_DDD",
      pattern |-> <<"F","F"," ","1","1"," ","3","3","3"," ","5","5","5","5"," ","D","D","D">>,
      description |-> "Any 1 Suit w Matching Dragons", points |-> 25, category |-> "X",
      suit_requirement |-> "any_1_suit_matching_dragons", joker_allowed |-> TRUE,
      specific_numbers |-> <<>>],
     [pattern_id |-> "13579_11_33_55_7777_9999",
      pattern |-> <<"1","1"," ","3","3"," ","5","5"," ","7","7","7","7"," ","9","9","9","9">>,
      description |-> "Any 3 Suits", points |-> 30, category |-> "X",
      suit_requirement |-> "any_3_suits", joker_allowed |-> TRUE,
      specific_numbers |-> <<>>],
     [pattern_id |-> "13579_FFFF_3333_5555",
      pattern |-> <<"F","F","F","F"," ","3","3","3","3"," ","x"," ","5","5","5","5"," ","="," ","1","5">>,
      description |-> "Any 3 Suits", points |-> 25, category |-> "X",
      suit_requirement |-> "any_3_suits", joker_allowed |-> TRUE,
      specific_numbers |-> <<>>],
     [pattern_id |-> "13579_11_33_333_555_DDDD",
      pattern |-> <<"1","1"," ","3","3"," ","3","3","3"," ","5","5","5"," ","D","D","D","D">>,
      description |-> "Any 3 Suits", points |-> 25, category |-> "X",
      suit_requirement |-> "any_3_suits", joker_allowed |-> TRUE,
      specific_numbers |-> <<>>],
     [pattern_id |-> "13579_111_33_555_333_333",
      pattern |-> <<"1","1","1"," ","3","3"," ","5","5","5"," ","3","3","3"," ","3","3","3">>,
      description |-> "Any 3 Suits, These Nos. Only", points |-> 35, category |-> "C",
      suit_requirement |-> "any_3_suits", joker_allowed |-> TRUE,
      specific_numbers |-> <<1,3,5>>],
     [pattern_id |-> "winds_NNNN_EEE_WWW_SSSS",
      pattern |-> <<"N","N","N","N"," ","E","E","E"," ","W","W","W"," ","S","S","S","S">>,
      description |-> "Any 2 Suits", points |-> 25, category |-> "X",
      suit_requirement |-> "any_2_suits", joker_allowed |-> TRUE,
      specific_numbers |-> <<>>],
     [pattern_id |-> "winds_FFFF_DDD_DDDD_DDD",
      pattern |-> <<"F","F","F","F"," ","D","D","D"," ","D","D","D","D"," ","D","D","D">>,
      description |-> "Any 3 Dragons", points |-> 25, category |-> "X",
      suit_requirement |-> "any_3_dragons", joker_allowed |-> TRUE,
      specific_numbers |-> <<>>],
     [pattern_id |-> "winds_NNN_SSS_1111_2222",
      pattern |-> <<"N","N","N"," ","S","S","S"," ","1","1","1","1"," ","2","2","2","2">>,
      description |-> "Any 2 Suits, Any 2 Consec. Nos.", points |-> 25, category |-> "X",
      suit_requirement |-> "any_2_suits", joker_allowed |-> TRUE,
      specific_numbers |-> <<>>],
     [pattern_id |-> "winds_FF_NN_EEE_WWW_SSSS",
      pattern |-> <<"F","F"," ","N","N"," ","E","E","E"," ","W","W","W"," ","S","S","S","S">>,
      description |-> "Any 2 Suits", points |-> 25, category |-> "X",
      suit_requirement |-> "any_2_suits", joker_allowed |-> TRUE,
      specific_numbers |-> <<>>],
     [pattern_id |-> "winds_NNNN_11_22_33_SSSS",
      pattern |-> <<"N","N","N","N"," ","1","1"," ","2","2"," ","3","3"," ","S","S","S","S">>,
      description |-> "Any 1 Suit, Any 3 Consec. Nos.", points |-> 30, category |-> "X",
      suit_requirement |-> "any_1_suit", joker_allowed |-> TRUE,
      specific_numbers |-> <<>>],
     [pattern_id |-> "winds_FF_DDDD_NEWS_DDDD",
      pattern |-> <<"F","F"," ","D","D","D","D"," ","N","E","W","S"," ","D","D","D","D">>,
      description |-> "Any 2 Dragons", points |-> 25, category |-> "X",
      suit_requirement |-> "any_2_dragons", joker_allowed |-> TRUE,
      specific_numbers |-> <<>>],
     [pattern_id |-> "winds_NNN_EW_SSS_111_111",
      pattern |-> <<"N","N","N"," ","E","W"," ","S","S","S"," ","1","1","1"," ","1","1","1">>,
      description |-> "Any 2 Suits, Any Like Nos.", points |-> 30, category |-> "C",
      suit_requirement |-> "any_2_suits", joker_allowed |-> TRUE,
      specific_numbers |-> <<>>],
     [pattern_id |-> "369_333_666_6666_9999",
      pattern |-> <<"3","3","3"," ","6","6","6"," ","6","6","6","6"," ","9","9","9","9">>,
      description |-> "Any 2 or 3 Suits", points |-> 25, category |-> "X",
      suit_requirement |-> "any_2_or_3_suits", joker_allowed |-> TRUE,
      specific_numbers |-> <<>>],
     [pattern_id |-> "369_FF_3_66_999_333_333",
      pattern |-> <<"F","F"," ","3"," ","6","6"," ","9","9","9"," ","3","3","3"," ","3","3","3">>,
      description |-> "Any 3 Suits, Like Pungs 3, 6 or 9", points |-> 25, category |-> "X",
      suit_requirement |-> "any_3_suits", joker_allowed |-> TRUE,
      specific_numbers |-> <<>>],
     [pattern_id |-> "369_FF_333_666_9999",
      pattern |-> <<"F","F"," ","3","3","3"," ","6","6","6"," ","9","9","9","9">>,
      description |-> "Any 1 or 3 Suits", points |-> 25, category |-> "X",
      suit_requirement |-> "any_1_or_3_suits", joker_allowed |-> TRUE,
      specific_numbers |-> <<>>],
     [pattern_id |-> "369_333_DDDD_333_DDDD",
      pattern |-> <<"3","3","3"," ","D","D","D","D"," ","3","3","3"," ","D","D","D","D">>,
      description |-> "Any 2 Suits, Pungs 3, 6 or 9 w Matching Dragons", points |-> 25, category |-> "X",
      suit_requirement |-> "any_2_suits_matching_dragons", joker_allowed |-> TRUE,
      specific_numbers |-> <<>>],
     [pattern_id |-> "369_3333_66_66_66_9999",
      pattern |-> <<"3","3","3","3"," ","6","6"," ","6","6"," ","6","6"," ","9","9","9","9">>,
      description |-> "Any 3 Suits, 3s and 9s Match", points |-> 30, category |-> "X",
      suit_requirement |-> "any_3_suits", joker_allowed |-> TRUE,
      specific_numbers |-> <<>>],
     [pattern_id |-> "369_FFFF_33_66_999_DDD",
      pattern |-> <<"F","F","F","F"," ","3","3"," ","6","6"," ","9","9","9"," ","D","D","D">>,
      description |-> "Nos. Any 1 Suit, Any Opp. Dragon", points |-> 25, category |-> "X",
      suit_requirement |-> "any_1_suit_opposite_dragons", joker_allowed |-> TRUE,
      specific_numbers |-> <<>>],
     [pattern_id |-> "369_333_666_333_666_99",
      pattern |-> <<"3","3","3"," ","6","6","6"," ","3","3","3"," ","6","6","6"," ","9","9">>,
      description |-> "Any 3 Suits", points |-> 30, category |-> "C",
      suit_requirement |-> "any_3_suits", joker_allowed |-> TRUE,
      specific_numbers |-> <<>>],
     [pattern_id |-> "singles_FF_22_46_88_22_46_88",
      pattern |-> <<"F","F"," ","2","2"," ","4","6"," ","8","8"," ","2","2"," ","4","6"," ","8","8">>,
      description |-> "Any 2 Suits", points |-> 50, category |-> "C",
      suit_requirement |-> "any_2_suits", joker_allowed |-> FALSE,
      specific_numbers |-> <<>>],
     [pattern_id |-> "singles_FF_11_33_55_55_77_99",
      pattern |-> <<"F","F"," ","1","1"," ","3","3"," ","5","5"," ","5","5"," ","7","7"," ","9","9">>,
      description |-> "Any 2 Suits", points |-> 50, category |-> "C",
      suit_requirement |-> "any_2_suits", joker_allowed |-> FALSE,
      specific_numbers |-> <<>>],
     [pattern_id |-> "singles_11_21123_112233",
      pattern |-> <<"1","1"," ","2","1","1","2","3"," ","1","1","2","2","3","3">>,
      description |-> "Any 3 Suits, These Nos. Only", points |-> 50, category |-> "C",
      suit_requirement |-> "any_3_suits", joker_allowed |-> FALSE,
      specific_numbers |-> <<1,2,3>>],
     [pattern_id |-> "singles_FF_33_66_99_369_369",
      pattern |-> <<"F","F"," ","3","3"," ","6","6"," ","9","9"," ","3","6","9"," ","3","6","9">>,
      description |-> "Any 3 Suits", points |-> 50, category |-> "C",
      suit_requirement |-> "any_3_suits", joker_allowed |-> FALSE,
      specific_numbers |-> <<>>],
     [pattern_id |-> "singles_11_22_33_44_55_DD_DD",
      pattern |-> <<"1","1"," ","2","2"," ","3","3"," ","4","4"," ","5","5"," ","D","D"," ","D","D">>,
      description |-> "Any 5 Consec. Nos. w Opp. Dragons", points |-> 50, category |-> "C",
      suit_requirement |-> "any_5_consec_opposite_dragons", joker_allowed |-> FALSE,
      specific_numbers |-> <<>>],
     [pattern_id |-> "singles_2024_NN_EW_SS_2024",
      pattern |-> <<"2","0","2","4"," ","N","N"," ","E","W"," ","S","S"," ","2","0","2","4">>,
      description |-> "Any 2 Suits", points |-> 75, category |-> "C",
      suit_requirement |-> "any_2_suits", joker_allowed |-> FALSE,
      specific_numbers |-> <<>>]
  >>

\* self.year_rules.get(year, {}).get('patterns', {}): only 2024 has a catalogue
YearPatterns(year) == IF year = 2024 THEN year_rules_2024 ELSE <<>>

(***************************************************************************)
(* Pattern parser: HandEvaluator._parse_pattern                            *)
(***************************************************************************)

\* pattern.split(): the maximal blank-free runs of s, read from position i
\* with cur the run being read
RECURSIVE SplitFrom(_, _, _)
SplitFrom(s, i, cur) ==
  IF i > Len(s) THEN (IF cur = <<>> THEN <<>> ELSE <<cur>>)
  ELSE IF s[i] = " "
       THEN (IF cur = <<>> THEN <<>> ELSE <<cur>>) \o SplitFrom(s, i + 1, <<>>)
       ELSE SplitFrom(s, i + 1, Append(cur, s[i]))

Split(s) == SplitFrom(s, 1, <<>>)

\* a slip: a token of wind letters taken for a group of its first wind
ParsePart_WindRunsParsed(part) ==
  IF part = <<"F">> THEN <<[type |-> "flower", count |-> 1]>>
  ELSE IF part = <<"F","F">> THEN <<[type |-> "flower", count |-> 2]>>
  ELSE IF part = <<"F","F","F","F">> THEN <<[type |-> "flower", count |-> 4]>>
  ELSE IF part = <<"F","F","F","F","F">> THEN <<[type |-> "flower", count |-> 5]>>
  ELSE IF part = <<"2","0","2","4">> THEN <<[type |-> "year", value |-> YearTile]>>
  ELSE IF InList(part, Winds) THEN <<[type |-> "wind", value |-> part]>>
  ELSE IF InList(part, Dragons) THEN <<[type |-> "dragon", value |-> part]>>
  ELSE IF part = <<"D","D","D","D">> THEN <<[type |-> "dragon_kong", count |-> 4]>>
  ELSE IF part = <<"D","D","D">> THEN <<[type |-> "dragon_pung", count |-> 3]>>
  ELSE IF part = <<"D","D">> THEN <<[type |-> "dragon_pair", count |-> 2]>>
  ELSE IF part = <<"D">> THEN <<[type |-> "dragon_single", count |-> 1]>>
  ELSE IF part = <<"N","E","W","S">> THEN <<[type |-> "all_winds", count |-> 4]>>
  ELSE IF part = <<"2","4">> THEN <<[type |-> "specific_numbers", numbers |-> <<2, 4>>]>>
  ELSE IF part # <<>> /\ (\A c \in DOMAIN part : InList(<<part[c]>>, Winds))
       THEN <<[type |-> "wind", value |-> <<part[1]>>]>>
  ELSE IF IsDigit(part)
       THEN <<[type |-> "numbered_pattern", number |-> IntOfChar(part[1]),
               count |-> Len(part)]>>
       ELSE <<>>

\* the body of the for loop: the components one part appends (none when no
\* branch takes it: the final else has no else of its own)
ParsePart(part) ==
  IF part = <<"F">> THEN <<[type |-> "flower", count |-> 1]>>
  ELSE IF part = <<"F","F">> THEN <<[type |-> "flower", count |-> 2]>>
  ELSE IF part = <<"F","F","F","F">> THEN <<[type |-> "flower", count |-> 4]>>
  ELSE IF part = <<"F","F","F","F","F">> THEN <<[type |-> "flower", count |-> 5]>>
  ELSE IF part = <<"2","0","2","4">> THEN <<[type |-> "year", value |-> YearTile]>>
  ELSE IF InList(part, Winds) THEN <<[type |-> "wind", value |-> part]>>
  ELSE IF InList(part, Dragons) THEN <<[type |-> "dragon", value |-> part]>>
  ELSE IF part = <<"D","D","D","D">> THEN <<[type |-> "dragon_kong", count |-> 4]>>
  ELSE IF part = <<"D","D","D">> THEN <<[type |-> "dragon_pung", count |-> 3]>>
  ELSE IF part = <<"D","D">> THEN <<[type |-> "dragon_pair", count |-> 2]>>
  ELSE IF part = <<"D">> THEN <<[type |-> "dragon_single", count |-> 1]>>
  ELSE IF part = <<"N","E","W","S">> THEN <<[type |-> "all_winds", count |-> 4]>>
  ELSE IF part = <<"2","4">> THEN <<[type |-> "specific_numbers", numbers |-> <<2, 4>>]>>
  ELSE IF IsDigit(part)
       THEN <<[type |-> "numbered_pattern", number |-> IntOfChar(part[1]),
               count |-> Len(part)]>>
       ELSE <<>>

RECURSIVE ParseParts(_)
ParseParts(parts) ==
  IF parts = <<>> THEN <<>>
  ELSE ParsePart(Head(parts)) \o ParseParts(Tail(parts))

ParsePattern(pattern) == ParseParts(Split(pattern))

(***************************************************************************)
(* Constraint matcher: _can_satisfy_pattern, _check_suit_requirements,     *)
(* _check_pattern_match                                                    *)
(***************************************************************************)

\* available_tiles.get(t, 0): the Counter of the hand without its 'F' key
Available(hand, t) == IF t = Flower THEN 0 ELSE CountOf(hand, t)

\* sum(available_tiles.get(d, 0) for d in list)
AvailableOf(hand, list) == Sum([i \in DOMAIN list |-> Available(hand, list[i])])

\* the number_count loops: the counts of the available numbered tiles whose
\* number is in numbers, summed
NumberCount(hand, numbers) ==
  Cardinality({i \in DOMAIN hand :
                 /\ hand[i] # Flower
                 /\ EndsWithSuit(hand[i])
                 /\ TileNumber(hand[i]) \in numbers})

\* a slip: a flower group asks for nothing
ComponentCovered_FlowersNotAsked(hand, component) ==
  LET flower_count == CountOf(hand, Flower)
  IN CASE component.type = "flower" -> TRUE
       [] component.type = "year" -> ~(Available(hand, YearTile) < 1)
       [] component.type = "wind" -> ~(Available(hand, component.value) < 1)
       [] component.type = "dragon" -> ~(Available(hand, component.value) < 1)
       [] component.type \in {"dragon_kong", "dragon_pung", "dragon_pair", "dragon_single"} ->
            ~(AvailableOf(hand, Dragons) < component.count)
       [] component.type = "all_winds" -> ~(AvailableOf(hand, Winds) < component.count)
       [] component.type = "specific_numbers" ->
            ~(NumberCount(hand, Elems(component.numbers)) < 2)
       [] component.type = "numbered_pattern" ->
            ~(NumberCount(hand, {component.number}) < component.count)
       [] OTHER -> TRUE

\* a slip: a numbered group asks for its count exactly
ComponentCovered_ExactCount(hand, component) ==
  LET flower_count == CountOf(hand, Flower)
  IN CASE component.type = "flower" -> ~(flower_count < component.count)
       [] component.type = "year" -> ~(Available(hand, YearTile) < 1)
       [] component.type = "wind" -> ~(Available(hand, component.value) < 1)
       [] component.type = "dragon" -> ~(Available(hand, component.value) < 1)
       [] component.type \in {"dragon_kong", "dragon_pung", "dragon_pair", "dragon_single"} ->
            ~(AvailableOf(hand, Dragons) < component.count)
       [] component.type = "all_winds" -> ~(AvailableOf(hand, Winds) < component.count)
       [] component.type = "specific_numbers" ->
            ~(NumberCount(hand, Elems(component.numbers)) < 2)
       [] component.type = "numbered_pattern" ->
            NumberCount(hand, {component.number}) = component.count
       [] OTHER -> TRUE

\* one pass of the component loop: FALSE where the code returns False
ComponentCovered(hand, component) ==
  LET flower_count == CountOf(hand, Flower)
  IN CASE component.type = "flower" -> ~(flower_count < component.count)
       [] component.type = "year" -> ~(Available(hand, YearTile) < 1)
       [] component.type = "wind" -> ~(Available(hand, component.value) < 1)
       [] component.type = "dragon" -> ~(Available(hand, component.value) < 1)
       [] component.type \in {"dragon_kong", "dragon_pung", "dragon_pair", "dragon_single"} ->
            ~(AvailableOf(hand, Dragons) < component.count)
       [] component.type = "all_winds" -> ~(AvailableOf(hand, Winds) < component.count)
       [] component.type = "specific_numbers" ->
            ~(NumberCount(hand, Elems(component.numbers)) < 2)
       [] component.type = "numbered_pattern" ->
            ~(NumberCount(hand, {component.number}) < component.count)
       [] OTHER -> TRUE

\* a slip: one covered component is taken for all of them
CanSatisfyPattern_AnyComponent(hand, pattern_components, pattern_info) ==
  \E i \in DOMAIN pattern_components : ComponentCovered(hand, pattern_components[i])

CanSatisfyPattern(hand, pattern_components, pattern_info) ==
  \A i \in DOMAIN pattern_components : ComponentCovered(hand, pattern_components[i])

\* numbered_tiles = [tile for tile in tiles if tile.endswith(('B', 'C', 'D'))]
NumberedTiles(hand) == SelectSeq(hand, EndsWithSuit)

\* suits_used = set(tile[-1] for tile in numbered_tiles)
SuitsUsed(hand) == {TileSuit(hand[i]) : i \in {j \in DOMAIN hand : EndsWithSuit(hand[j])}}

\* sorted([int(tile[0]) for tile in numbered_tiles])
RECURSIVE SortedFrom(_, _)
SortedFrom(hand, n) ==
  IF n > 9 THEN <<>>
  ELSE Rep(n, Cardinality({i \in DOMAIN hand :
                             EndsWithSuit(hand[i]) /\ TileNumber(hand[i]) = n}))
       \o SortedFrom(hand, n + 1)

SortedNumbers(hand) == SortedFrom(hand, 0)

\* the loop of 'any_5_consec_opposite_dragons' from index i (1-based) on
RECURSIVE MaxConsecutiveFrom(_, _, _, _)
MaxConsecutiveFrom(numbers, i, consecutive_count, max_consecutive) ==
  IF i > Len(numbers) THEN max_consecutive
  ELSE IF numbers[i] = numbers[i - 1] + 1
       THEN MaxConsecutiveFrom(numbers, i + 1, consecutive_count + 1,
                               IF consecutive_count + 1 > max_consecutive
                               THEN consecutive_count + 1 ELSE max_consecutive)
       ELSE MaxConsecutiveFrom(numbers, i + 1, 1, max_consecutive)

MaxConsecutive(numbers) == MaxConsecutiveFrom(numbers, 2, 1, 1)

DragonCount(hand) == Cardinality({i \in DOMAIN hand : InList(hand[i], Dragons)})

\* the if/elif chain of _check_suit_requirements, reached when the hand has
\* numbered tiles
RequirementOnSuits(hand, suit_requirement, pattern_info) ==
  LET suits_used == SuitsUsed(hand)
      num_suits == Cardinality(suits_used)
      suit == CHOOSE s \in suits_used : TRUE
  IN      CASE suit_requirement = "any_1_suit" -> num_suits = 1
            [] suit_requirement = "any_2_suits" -> num_suits = 2
            [] suit_requirement = "any_3_suits" -> num_suits = 3
            [] suit_requirement = "any_1_or_2_suits" -> num_suits \in {1, 2}
            [] suit_requirement = "any_1_or_3_suits" -> num_suits \in {1, 3}
            [] suit_requirement = "any_2_or_3_suits" -> num_suits \in {2, 3}
            [] suit_requirement = "any_1_suit_matching_dragons" ->
                 /\ num_suits = 1
                 /\ InList(dragon_associations(suit), hand)
            [] suit_requirement = "any_2_suits_matching_dragons" ->
                 /\ num_suits = 2
                 /\ \E s \in suits_used : InList(dragon_associations(s), hand)
            [] suit_requirement = "any_1_suit_opposite_dragons" ->
                 /\ num_suits = 1
                 /\ \E i \in DOMAIN Dragons :
                      InList(Dragons[i], hand) /\ Dragons[i] # dragon_associations(suit)
            [] suit_requirement = "any_5_consec_opposite_dragons" ->
                 MaxConsecutive(SortedNumbers(hand)) >= 5
            [] suit_requirement = "specific_numbers" ->
                 \/ pattern_info.specific_numbers = <<>>
                 \/ \A k \in DOMAIN pattern_info.specific_numbers :
                      \E i \in DOMAIN hand :
                        /\ EndsWithSuit(hand[i])
                        /\ TileNumber(hand[i]) = pattern_info.specific_numbers[k]
            [] suit_requirement = "any_3_dragons" -> DragonCount(hand) >= 3
            [] suit_requirement = "any_2_dragons" -> DragonCount(hand) >= 2
            [] OTHER -> TRUE

\* a slip: 'any_2_suits' taken as two suits or more
CheckSuitRequirements_AtLeastTwo(hand, suit_requirement, pattern_info) ==
  IF NumberedTiles(hand) = <<>>
  THEN suit_requirement \in {"any_3_dragons", "any_2_dragons"}
  ELSE IF suit_requirement = "any_2_suits"
       THEN Cardinality(SuitsUsed(hand)) >= 2
       ELSE RequirementOnSuits(hand, suit_requirement, pattern_info)

CheckSuitRequirements(hand, suit_requirement, pattern_info) ==
  IF NumberedTiles(hand) = <<>>
  THEN suit_requirement \in {"any_3_dragons", "any_2_dragons"}
  ELSE RequirementOnSuits(hand, suit_requirement, pattern_info)

\* a slip: the joker rule left out
CheckPatternMatch_JokerIgnored(hand, pattern_info) ==
  IF ~CanSatisfyPattern(hand, ParsePattern(pattern_info.pattern), pattern_info)
  THEN FALSE
  ELSE CheckSuitRequirements(hand, pattern_info.suit_requirement, pattern_info)

CheckPatternMatch(hand, pattern_info) ==
  LET joker_count == CountOf(hand, Flower)
  IN IF ~pattern_info.joker_allowed /\ joker_count > 0 THEN FALSE
     ELSE IF ~CanSatisfyPattern(hand, ParsePattern(pattern_info.pattern), pattern_info)
          THEN FALSE
          ELSE CheckSuitRequirements(hand, pattern_info.suit_requirement, pattern_info)

(***************************************************************************)
(* Iteration order of a Python set.  list(set(x)) lists the elements in    *)
(* hash-table order; the hash of a str depends on the interpreter's hash   *)
(* seed, drawn at process start (PYTHONHASHSEED unset).  hashSeed is that  *)
(* draw; the order of a set is the order of its elements' hashes.          *)
(***************************************************************************)

\* the strings the program ever puts in a set: tiles, suit letters, and the
\* one string outside the tile set that the hands below hold and the
\* calculator accepts
Hashable == valid_tiles \o << <<"B">>, <<"C">>, <<"D">>, <<"1", "X">> >>

\* hash(x) under the seed: one-to-one on Hashable for 0 < seed < 41
Hash(x, seed) == ((CHOOSE i \in DOMAIN Hashable : Hashable[i] = x) * seed) % 41

\* list(set): the elements of S by increasing hash
ListOfSet(S, seed) ==
  LET at(h) == {i \in DOMAIN Hashable : (i * seed) % 41 = h /\ Hashable[i] \in S}
      slots == SelectSeq([k \in 1..41 |-> at(k - 1)], LAMBDA c : c # {})
  IN [k \in DOMAIN slots |-> Hashable[CHOOSE i \in slots[k] : TRUE]]

(***************************************************************************)
(* Hand evaluator: evaluate_hand and what it calls                         *)
(***************************************************************************)

\* a slip: stop at the first tile outside the tile set
InvalidTiles_FirstOnly(hand) ==
  Take(SelectSeq(hand, LAMBDA t : ~InList(t, valid_tiles)), 1)

\* _validate_tiles: the invalid_tiles list (the call raises when not empty)
InvalidTiles(hand) == SelectSeq(hand, LAMBDA t : ~InList(t, valid_tiles))

\* the entry _find_potential_hands appends for a pattern ('name' is the
\* pattern_id re-spelt, pattern_id.replace('_', ' ').title(), and is not kept)
PotentialHand(pattern_info) ==
  [points |-> pattern_info.points,
   description |-> pattern_info.description,
   category |-> pattern_info.category,
   pattern |-> pattern_info.pattern,
   pattern_id |-> pattern_info.pattern_id]

RECURSIVE PotentialHandsFrom(_, _)
PotentialHandsFrom(hand, patterns) ==
  IF patterns = <<>> THEN <<>>
  ELSE (IF CheckPatternMatch(hand, Head(patterns))
        THEN <<PotentialHand(Head(patterns))>> ELSE <<>>)
       \o PotentialHandsFrom(hand, Tail(patterns))

FindPotentialHands(hand, year) == PotentialHandsFrom(hand, YearPatterns(year))

\* a slip: the first reported pattern's points instead of the highest
CalculateHandValue_First(potential_hands) ==
  IF potential_hands = <<>> THEN 0 ELSE potential_hands[1].points

CalculateHandValue(potential_hands) ==
  IF potential_hands = <<>> THEN 0
  ELSE Max([i \in DOMAIN potential_hands |-> potential_hands[i].points])

\* the two tiles next in rank to each numbered tile of list, in list order
RECURSIVE Neighbours(_)
Neighbours(list) ==
  IF list = <<>> THEN <<>>
  ELSE LET tile == Head(list)
       IN (IF EndsWithSuit(tile)
           THEN (IF TileNumber(tile) > 1
                 THEN <<Numbered(TileNumber(tile) - 1, TileSuit(tile))>> ELSE <<>>)
                \o (IF TileNumber(tile) < 9
                    THEN <<Numbered(TileNumber(tile) + 1, TileSuit(tile))>> ELSE <<>>)
           ELSE <<>>)
          \o Neighbours(Tail(list))

\* special_tiles = ['R', 'G', '0', 'F', '2024']
special_tiles == Dragons \o <<Flower, YearTile>>

\* [tile for tile, count in Counter(hand).items() if count == n]
WithCount(hand, n) == SelectSeq(Keys(hand), LAMBDA t : CountOf(hand, t) = n)

\* _find_tiles_to_win: the list before it is made a set
HelpfulList(hand) ==
  WithCount(hand, 1)
  \o SelectSeq(special_tiles, LAMBDA t : ~InList(t, hand))
  \o Neighbours(hand)

FindTilesToWin(hand, year, seed) == Take(ListOfSet(Elems(HelpfulList(hand)), seed), 8)

CalculateHandStrength(hand, hand_value) ==
  IF hand_value >= 50 THEN "Excellent"
  ELSE IF hand_value >= 35 THEN "Strong"
  ELSE IF hand_value >= 25 THEN "Developing"
  ELSE "Weak"

\* the sorted (number, tile) list of one suit in _find_potential_sequences
SuitTiles(numbered_tiles, suit) ==
  LET mine == SelectSeq(numbered_tiles, LAMBDA t : TileSuit(t) = suit)
      numbers == SortedNumbers(mine)
  IN [i \in DOMAIN numbers |-> Numbered(numbers[i], suit)]

\* for i in range(len(numbers) - 2), from i (1-based) on
RECURSIVE SequencesFrom(_, _)
SequencesFrom(suit_tiles, i) ==
  IF i > Len(suit_tiles) - 2 THEN <<>>
  ELSE (IF /\ TileNumber(suit_tiles[i + 1]) = TileNumber(suit_tiles[i]) + 1
           /\ TileNumber(suit_tiles[i + 2]) = TileNumber(suit_tiles[i]) + 2
        THEN << <<suit_tiles[i], suit_tiles[i + 1], suit_tiles[i + 2]>> >>
        ELSE <<>>)
       \o SequencesFrom(suit_tiles, i + 1)

\* for suit, tiles in by_suit.items(): suits in order of first occurrence
RECURSIVE SequencesOfSuits(_, _)
SequencesOfSuits(numbered_tiles, suits) ==
  IF suits = <<>> THEN <<>>
  ELSE SequencesFrom(SuitTiles(numbered_tiles, Head(suits)), 1)
       \o SequencesOfSuits(numbered_tiles, Tail(suits))

FindPotentialSequences(numbered_tiles) ==
  SequencesOfSuits(numbered_tiles,
                   Keys([i \in DOMAIN numbered_tiles |-> TileSuit(numbered_tiles[i])]))

AnalyzeHandStructure(hand, seed) ==
  [numbered_tiles |-> Len(NumberedTiles(hand)),
   wind_tiles |-> Len(SelectSeq(hand, LAMBDA t : InList(t, Winds))),
   dragon_tiles |-> Len(SelectSeq(hand, LAMBDA t : InList(t, Dragons))),
   flower_tiles |-> Len(SelectSeq(hand, LAMBDA t : t = Flower)),
   year_tiles |-> Len(SelectSeq(hand, LAMBDA t : t = YearTile)),
   suits_used |-> ListOfSet({<<s>> : s \in SuitsUsed(hand)}, seed),
   num_suits |-> Cardinality(SuitsUsed(hand)),
   pairs |-> WithCount(hand, 2),
   triplets |-> WithCount(hand, 3),
   quads |-> WithCount(hand, 4),
   potential_sequences |-> FindPotentialSequences(NumberedTiles(hand))]

\* dict(Counter(hand)): a dict compares without order, so it is kept as the
\* set of its items
TileDistribution(hand) == {<<t, CountOf(hand, t)>> : t \in Elems(hand)}

\* a slip: the tiles validated before the hand is measured
EvaluateHand_ValidateFirst(hand, year, seed) ==
  IF InvalidTiles(hand) # <<>>
  THEN [status |-> "raised", error |-> "ValueError",
        message |-> "Invalid tiles found", invalid_tiles |-> InvalidTiles(hand)]
  ELSE IF Len(hand) # 13
  THEN [status |-> "raised", error |-> "ValueError",
        message |-> "Hand must contain exactly 13 tiles"]
  ELSE LET potential_hands == FindPotentialHands(hand, year)
           hand_value == CalculateHandValue(potential_hands)
       IN [status |-> "returned",
           hand_value |-> hand_value,
           potential_hands |-> potential_hands,
           tiles_to_win |-> FindTilesToWin(hand, year, seed),
           hand_strength |-> CalculateHandStrength(hand, hand_value),
           tile_distribution |-> TileDistribution(hand),
           hand_structure |-> AnalyzeHandStructure(hand, seed),
           year |-> year]

\* evaluate_hand: the analysis it returns, or the exception it raises
EvaluateHand(hand, year, seed) ==
  IF Len(hand) # 13
  THEN [status |-> "raised", error |-> "ValueError",
        message |-> "Hand must contain exactly 13 tiles"]
  ELSE IF InvalidTiles(hand) # <<>>
  THEN [status |-> "raised", error |-> "ValueError",
        message |-> "Invalid tiles found", invalid_tiles |-> InvalidTiles(hand)]
  ELSE LET potential_hands == FindPotentialHands(hand, year)
           hand_value == CalculateHandValue(potential_hands)
       IN [status |-> "returned",
           hand_value |-> hand_value,
           potential_hands |-> potential_hands,
           tiles_to_win |-> FindTilesToWin(hand, year, seed),
           hand_strength |-> CalculateHandStrength(hand, hand_value),
           tile_distribution |-> TileDistribution(hand),
           hand_structure |-> AnalyzeHandStructure(hand, seed),
           year |-> year]

(***************************************************************************)
(* Recommendation engine: TileCalculator._find_best_discard and the        *)
(* discard score                                                           *)
(***************************************************************************)

\* hand_analysis.get('hand_structure', {}) with the defaults of the two
\* .get calls that read it
HandStructureOf(analysis) ==
  IF analysis.status = "returned" THEN analysis.hand_structure
  ELSE [num_suits |-> 0, suits_used |-> <<>>]

\* a slip: the flower valued like a wind
BaseTileValue_FlowerAsWind(tile) ==
  IF tile = Flower THEN 4
  ELSE IF tile = YearTile THEN 10
  ELSE IF InList(tile, Dragons) THEN 6
  ELSE IF InList(tile, Winds) THEN 4
  ELSE IF EndsWithSuit(tile) THEN 2
  ELSE 1

\* self.tile_values[...] by tile class: the first if/elif chain of
\* _calculate_discard_score
BaseTileValue(tile) ==
  IF tile = Flower THEN 8
  ELSE IF tile = YearTile THEN 10
  ELSE IF InList(tile, Dragons) THEN 6
  ELSE IF InList(tile, Winds) THEN 4
  ELSE IF EndsWithSuit(tile) THEN 2
  ELSE 1

\* how many of the given neighbour ranks of a numbered tile are in the hand
PresentAt(tile, all_tiles, offsets) ==
  Cardinality({d \in offsets :
                 /\ TileNumber(tile) + d >= 1
                 /\ TileNumber(tile) + d <= 9
                 /\ InList(Numbered(TileNumber(tile) + d, TileSuit(tile)), all_tiles)})

CalculateSequencePotential(tile, all_tiles) ==
  IF ~EndsWithSuit(tile) THEN 0
  ELSE LET adjacent_count == PresentAt(tile, all_tiles, {-1, 1})
           two_away_count == PresentAt(tile, all_tiles, {-2, 2})
       IN IF adjacent_count = 2 THEN 6
          ELSE IF adjacent_count = 1 THEN 3
          ELSE IF two_away_count > 0 THEN 1
          ELSE 0

CalculateYearSpecificValue(tile, all_tiles, year) ==
  IF year # 2024 THEN 0
  ELSE (IF tile = YearTile THEN 5 ELSE 0)
     + (IF InList(tile, Dragons) THEN 2 ELSE 0)
     + (IF tile = Flower THEN 3 ELSE 0)
     + (IF EndsWithSuit(tile)
        THEN (IF TileNumber(tile) \in {2, 4, 6, 8} THEN 1 ELSE 0)
           + (IF TileNumber(tile) \in {1, 3, 5, 7, 9} THEN 1 ELSE 0)
           + (IF TileNumber(tile) \in {3, 6, 9} THEN 1 ELSE 0)
        ELSE 0)

CalculateStructureValue(tile, all_tiles, analysis) ==
  LET hand_structure == HandStructureOf(analysis)
      num_suits == hand_structure.num_suits
      suits_used == hand_structure.suits_used
      suit_count == Cardinality({i \in DOMAIN all_tiles :
                                   /\ Len(all_tiles[i]) > 0
                                   /\ TileSuit(all_tiles[i]) = TileSuit(tile)})
  IN IF ~EndsWithSuit(tile) THEN 0
     ELSE (IF num_suits = 1 /\ InList(<<TileSuit(tile)>>, suits_used) THEN 2 ELSE 0)
        + (IF num_suits > 1 /\ suit_count >= 4 THEN 1 ELSE 0)
        + (IF InList(dragon_associations(TileSuit(tile)), all_tiles) THEN 1 ELSE 0)

\* a slip: a pair valued like a triplet
CalculateDiscardScore_PairAsTriplet(tile, all_tiles, analysis, year) ==
  LET count == CountOf(all_tiles, tile)
  IN BaseTileValue(tile)
     + (IF count = 1 THEN -3 ELSE IF count >= 2 THEN 8 ELSE 0)
     + CalculateSequencePotential(tile, all_tiles)
     + CalculateYearSpecificValue(tile, all_tiles, year)
     + CalculateStructureValue(tile, all_tiles, analysis)

CalculateDiscardScore(tile, all_tiles, analysis, year) ==
  LET count == CountOf(all_tiles, tile)
  IN BaseTileValue(tile)
     + (IF count = 1 THEN -3 ELSE IF count = 2 THEN 2 ELSE IF count >= 3 THEN 8 ELSE 0)
     + CalculateSequencePotential(tile, all_tiles)
     + CalculateYearSpecificValue(tile, all_tiles, year)
     + CalculateStructureValue(tile, all_tiles, analysis)

\* discard_scores, as the scores of the dict's keys in dict order
DiscardScores(all_tiles, analysis, year) ==
  [i \in DOMAIN Keys(all_tiles) |->
     CalculateDiscardScore(Keys(all_tiles)[i], all_tiles, analysis, year)]

\* min(discard_scores.keys(), key=...): the first key, in dict order, whose
\* score no other key's score is below
FirstMinimal(keys, scores) ==
  LET i == CHOOSE k \in DOMAIN keys :
             /\ \A j \in DOMAIN keys : scores[k] <= scores[j]
             /\ \A j \in 1..(k - 1) : scores[j] > scores[k]
  IN keys[i]

\* a slip in the tie-break: the last of the lowest-scoring keys
LastMinimal(keys, scores) ==
  LET i == CHOOSE k \in DOMAIN keys :
             /\ \A j \in DOMAIN keys : scores[k] <= scores[j]
             /\ \A j \in (k + 1)..Len(keys) : scores[j] > scores[k]
  IN keys[i]

FindBestDiscard_LastMinimal(all_tiles, analysis, year) ==
  IF all_tiles = <<>> THEN [status |-> "returned", none |-> TRUE]
  ELSE [status |-> "returned", none |-> FALSE,
        value |-> LastMinimal(Keys(all_tiles), DiscardScores(all_tiles, analysis, year))]

\* _find_best_discard: None for an empty hand
FindBestDiscard(all_tiles, analysis, year) ==
  IF all_tiles = <<>> THEN [status |-> "returned", none |-> TRUE]
  ELSE [status |-> "returned", none |-> FALSE,
        value |-> FirstMinimal(Keys(all_tiles), DiscardScores(all_tiles, analysis, year))]

(***************************************************************************)
(* Recommendation engine: draws.  _calculate_sequence_help returns 0.5, so *)
(* draw scores are kept in half points.                                    *)
(***************************************************************************)

\* hand_analysis.get('tiles_to_win', [])
TilesToWinOf(analysis) ==
  IF analysis.status = "returned" THEN analysis.tiles_to_win ELSE <<>>

\* hand_analysis.get('hand_value', 0)
HandValueOf(analysis) ==
  IF analysis.status = "returned" THEN analysis.hand_value ELSE 0

\* int(tile[0]) raises ValueError: a tile that ends in a suit letter and
\* does not start with a digit
Unparsable(tile) == EndsWithSuit(tile) /\ ~IsDigitChar(tile[1])

\* the tiles f"{number}{suit}" of the given ranks that the hand lacks, in the
\* order of the nested loops
RECURSIVE MissingOfRanks(_, _)
MissingOfRanks(hand, numbers) ==
  IF numbers = <<>> THEN <<>>
  ELSE SelectSeq(<< Numbered(Head(numbers), "B"), Numbered(Head(numbers), "C"),
                    Numbered(Head(numbers), "D") >>,
                 LAMBDA t : ~InList(t, hand))
       \o MissingOfRanks(hand, Tail(numbers))

\* _find_helpful_tiles: the list before it is made a set
HelpfulTilesList(hand, year) ==
  WithCount(hand, 1)
  \o Neighbours(hand)
  \o SelectSeq(special_tiles, LAMBDA t : ~InList(t, hand))
  \o (IF year = 2024
      THEN MissingOfRanks(hand, <<2, 4, 6, 8>>)
           \o MissingOfRanks(hand, <<1, 3, 5, 7, 9>>)
           \o MissingOfRanks(hand, <<3, 6, 9>>)
      ELSE <<>>)

FindHelpfulTiles(hand, analysis, year, seed) ==
  ListOfSet(Elems(HelpfulTilesList(hand, year)), seed)

\* a slip: the flower drawn at a wind's value
DrawBaseValue_FlowerAsWind(tile) ==
  IF tile = Flower THEN 4
  ELSE IF tile = YearTile THEN 10
  ELSE IF InList(tile, Dragons) THEN 6
  ELSE IF InList(tile, Winds) THEN 4
  ELSE IF EndsWithSuit(tile) THEN 2
  ELSE 1

\* the first if/elif chain of _calculate_draw_score
DrawBaseValue(tile) ==
  IF tile = Flower THEN 8
  ELSE IF tile = YearTile THEN 10
  ELSE IF InList(tile, Dragons) THEN 6
  ELSE IF InList(tile, Winds) THEN 4
  ELSE IF EndsWithSuit(tile) THEN 2
  ELSE 1

\* the pair / triplet / quad bonus of _calculate_draw_score
DrawCountBonus(tile, current_tiles) ==
  LET count == CountOf(current_tiles, tile)
  IN IF count = 1 THEN 3 ELSE IF count = 2 THEN 6 ELSE IF count = 3 THEN 10 ELSE 0

\* _calculate_sequence_help, in half points: 5, 2 and 0.5
CalculateSequenceHelp(tile, current_tiles) ==
  IF ~EndsWithSuit(tile) THEN 0
  ELSE LET adjacent_count == PresentAt(tile, current_tiles, {-1, 1})
       IN IF adjacent_count = 2 THEN 10
          ELSE IF adjacent_count = 1 THEN 4
          ELSE 1

\* _calculate_draw_score, in half points
CalculateDrawScore(tile, current_tiles, analysis, year) ==
  2 * DrawBaseValue(tile)
  + 2 * DrawCountBonus(tile, current_tiles)
  + CalculateSequenceHelp(tile, current_tiles)
  + 2 * CalculateYearSpecificValue(tile, current_tiles, year)
  + 2 * CalculateStructureValue(tile, current_tiles, analysis)

\* draw_scores, as <<tile, score>> in the order of all_helpful
DrawScores(keys, current_tiles, analysis, year) ==
  [i \in DOMAIN keys |->
     <<keys[i], CalculateDrawScore(keys[i], current_tiles, analysis, year)>>]

\* one item put in its place in a list sorted by falling score: before the
\* first item whose score is not higher
RECURSIVE InsertByScore(_, _)
InsertByScore(x, sorted) ==
  IF sorted = <<>> THEN <<x>>
  ELSE IF Head(sorted)[2] > x[2]
       THEN <<Head(sorted)>> \o InsertByScore(x, Tail(sorted))
       ELSE <<x>> \o sorted

\* sorted(keys, key=score, reverse=True): by falling score, equal scores in the
\* order they had
RECURSIVE SortedByScore(_)
SortedByScore(items) ==
  IF items = <<>> THEN <<>>
  ELSE InsertByScore(Head(items), SortedByScore(Tail(items)))

\* all_helpful = list(set(tiles_to_win + helpful_tiles))
AllHelpful(hand, analysis, year, seed) ==
  ListOfSet(Elems(TilesToWinOf(analysis))
              \cup Elems(FindHelpfulTiles(hand, analysis, year, seed)), seed)

FindBestDraws(hand, analysis, year, seed) ==
  LET sorted_tiles ==
        SortedByScore(DrawScores(AllHelpful(hand, analysis, year, seed), hand, analysis, year))
  IN Take([i \in DOMAIN sorted_tiles |-> sorted_tiles[i][1]], 8)

(***************************************************************************)
(* Recommendation engine: get_recommendations.  The two texts are kept as  *)
(* the lists of sentences that " ".join makes one string of; a sentence is *)
(* its template, the formatted values aside.                               *)
(***************************************************************************)

\* _generate_reasoning: reasoning_parts
GenerateReasoning(hand, best_discard, best_draws, analysis, year) ==
  (IF best_discard.none THEN <<>>
   ELSE IF best_discard.value = Flower
        THEN <<"Discard {best_discard} - While flowers are valuable, this one doesn't fit your current strategy">>
   ELSE IF best_discard.value = YearTile
        THEN <<"Discard {best_discard} - Year tiles are valuable but this one doesn't fit your hand structure">>
   ELSE IF InList(best_discard.value, Dragons)
        THEN <<"Discard {best_discard} - Dragon tiles are valuable but this one doesn't fit your hand structure">>
   ELSE IF InList(best_discard.value, Winds)
        THEN <<"Discard {best_discard} - Wind tiles are valuable but this one doesn't fit your current pattern">>
   ELSE <<"Discard {best_discard} - This tile has the lowest potential for improving your hand">>)
  \o (IF best_draws # <<>> THEN <<"Best draws: {', '.join(best_draws[:4])}">> ELSE <<>>)
  \o (IF HandValueOf(analysis) >= 50
      THEN <<"Your hand is excellent - focus on completing high-value patterns">>
      ELSE IF HandValueOf(analysis) >= 35
      THEN <<"Your hand is strong - focus on completing your best patterns">>
      ELSE IF HandValueOf(analysis) >= 25
      THEN <<"Your hand is developing - focus on building sequences and pairs">>
      ELSE <<"Your hand needs work - focus on building basic structure">>)
  \o <<"Remember that {year} rules may favor certain patterns - check the official card for specific hands">>

\* hand_structure.get(key, 0) for the counts _generate_strategic_advice reads
StructureCounts(analysis) ==
  IF analysis.status = "returned" THEN analysis.hand_structure
  ELSE [num_suits |-> 0, flower_tiles |-> 0, dragon_tiles |-> 0, year_tiles |-> 0]

\* numbers = [int(tile[0]) for tile in numbered_tiles]
NumbersOf(hand) ==
  [i \in DOMAIN NumberedTiles(hand) |-> TileNumber(NumberedTiles(hand)[i])]

\* _generate_strategic_advice: advice_parts
GenerateStrategicAdvice(hand, analysis, year) ==
  LET hand_structure == StructureCounts(analysis)
      numbers == NumbersOf(hand)
      even_count == Len(SelectSeq(numbers, LAMBDA n : n % 2 = 0))
      odd_count == Len(SelectSeq(numbers, LAMBDA n : n % 2 = 1))
  IN (IF hand_structure.num_suits = 1
      THEN <<"Focus on single-suit patterns - you have a good foundation">>
      ELSE IF hand_structure.num_suits = 2
      THEN <<"Consider two-suit patterns or expand to three suits">>
      ELSE IF hand_structure.num_suits = 3
      THEN <<"You have good suit diversity - consider three-suit patterns">>
      ELSE <<"Build toward a specific suit strategy">>)
     \o (IF hand_structure.flower_tiles >= 4
         THEN <<"You have many flowers - focus on patterns that use them effectively">>
         ELSE IF hand_structure.flower_tiles >= 2
         THEN <<"You have some flowers - use them strategically">>
         ELSE <<"Consider drawing flowers for flexibility">>)
     \o (IF hand_structure.dragon_tiles >= 2
         THEN <<"You have dragons - consider dragon-heavy patterns">> ELSE <<>>)
     \o (IF hand_structure.year_tiles >= 1
         THEN <<"You have year tiles - focus on 2024-specific patterns">> ELSE <<>>)
     \o (IF year = 2024
         THEN (IF even_count >= 6
               THEN <<"You have many even numbers - consider 2468 patterns">> ELSE <<>>)
              \o (IF odd_count >= 6
                  THEN <<"You have many odd numbers - consider 13579 patterns">> ELSE <<>>)
              \o (IF \E i \in DOMAIN numbers : numbers[i] \in {3, 6, 9}
                  THEN <<"You have 3, 6, or 9 tiles - consider 369 patterns">> ELSE <<>>)
         ELSE <<>>)

\* the dict of the except branch
NoRecommendation ==
  [status |-> "returned",
   best_discard |-> [status |-> "returned", none |-> TRUE],
   best_draws |-> <<>>,
   reasoning |-> <<"Unable to generate recommendations">>,
   strategic_advice |-> <<"Unable to generate strategic advice">>]

\* get_recommendations: int(tile[0]) of a tile that ends in a suit letter
\* without starting with a digit raises in the first score computed, and the
\* except branch answers
GetRecommendations(hand, analysis, year, seed) ==
  IF \E i \in DOMAIN hand : Unparsable(hand[i]) THEN NoRecommendation
  ELSE LET best_discard == FindBestDiscard(hand, analysis, year)
           best_draws == FindBestDraws(hand, analysis, year, seed)
       IN [status |-> "returned",
           best_discard |-> best_discard,
           best_draws |-> best_draws,
           reasoning |-> GenerateReasoning(hand, best_discard, best_draws, analysis, year),
           strategic_advice |-> GenerateStrategicAdvice(hand, analysis, year)]

(***************************************************************************)
(* Inputs                                                                  *)
(***************************************************************************)

\* the hash seeds a process may draw
MaxSeed == 2

Seeds == 1..MaxSeed

\* the rules years a caller passes: the one with a catalogue and one without
Years == {2024, 2025}

\* a hand written as runs: <<tile, copies>>, ...
RECURSIVE Runs(_)
Runs(blocks) ==
  IF blocks = <<>> THEN <<>>
  ELSE Rep(Head(blocks)[1], Head(blocks)[2]) \o Runs(Tail(blocks))

Invalid == <<"I","N","V","A","L","I","D">>

\* the hands of the repository's tests and of the catalogue's shapes
BaseHands ==
  { \* test_backend.py, tests 1, 2, 4 and 9
    Runs(<< <<Numbered(2,"B"), 3>>, <<<<"0">>, 3>>, <<Numbered(2,"C"), 4>>,
            <<Numbered(4,"C"), 3>> >>),
    Runs(<< <<Numbered(2,"B"), 2>>, <<Numbered(4,"B"), 2>>, <<Numbered(6,"B"), 3>>,
            <<Numbered(8,"B"), 3>>, <<<<"G">>, 3>> >>),
    Runs(<< <<Flower, 2>>, <<Numbered(1,"B"), 4>>, <<Numbered(6,"B"), 4>>,
            <<Numbered(7,"B"), 3>> >>),
    Runs(<< <<Numbered(3,"B"), 3>>, <<Numbered(6,"B"), 3>>, <<Numbered(6,"C"), 4>>,
            <<Numbered(9,"C"), 3>> >>),
    \* three 2s, three matching dragons, four 6s, four 8s of one suit (14 tiles)
    Runs(<< <<Numbered(2,"B"), 3>>, <<<<"G">>, 3>>, <<Numbered(6,"B"), 4>>,
            <<Numbered(8,"B"), 4>> >>),
    \* tests/test_hand_evaluator.py: the 14-tile hand of test_validate_tiles
    << Numbered(1,"B"), Numbered(2,"B"), Numbered(3,"B"), Numbered(4,"C"),
       Numbered(5,"C"), Numbered(6,"C"), Numbered(7,"D"), Numbered(8,"D"),
       Numbered(9,"D"), <<"E">>, <<"S">>, <<"W">>, <<"N">>, Flower >>,
    \* test_evaluate_hand_invalid: too few, too many
    Rep(Numbered(1,"B"), 3),
    Rep(Numbered(1,"B"), 15),
    \* a year tile, two suits and the four winds
    Runs(<< <<YearTile, 1>>, <<Numbered(1,"B"), 4>>, <<Numbered(2,"C"), 4>>,
            <<<<"E">>, 1>>, <<<<"S">>, 1>>, <<<<"W">>, 1>>, <<<<"N">>, 1>> >>),
    \* 'FF 333 666 9999' in one suit, and a wind
    Runs(<< <<Flower, 2>>, <<Numbered(3,"B"), 3>>, <<Numbered(6,"B"), 3>>,
            <<Numbered(9,"B"), 4>>, <<<<"E">>, 1>> >>),
    \* winds only
    Runs(<< <<<<"E">>, 4>>, <<<<"S">>, 3>>, <<<<"W">>, 3>>, <<<<"N">>, 3>> >>),
    \* a tile outside the tile set in the middle of a 13-tile hand
    Runs(<< <<Numbered(1,"B"), 6>>, <<<<"1","X">>, 1>>, <<Numbered(2,"C"), 6>> >>),
    \* 'FF 1111 NEWS 1111' in two suits with four East winds for 'NEWS'
    Runs(<< <<Flower, 2>>, <<Numbered(1,"B"), 4>>, <<<<"E">>, 4>>,
            <<Numbered(1,"C"), 4>> >>),
    \* test_backend.py, test 10: pairs of 1 to 5 in one suit, its dragon and
    \* another one
    Runs(<< <<Numbered(1,"B"), 2>>, <<Numbered(2,"B"), 2>>, <<Numbered(3,"B"), 2>>,
            <<Numbered(4,"B"), 2>>, <<Numbered(5,"B"), 2>>, <<<<"R">>, 2>>,
            <<<<"G">>, 1>> >>),
    \* singles of three suits, in two orders
    << Numbered(9,"D"), Numbered(1,"B"), Numbered(5,"C"), <<"E">>, <<"R">>,
       Numbered(1,"B"), Numbered(9,"D"), Numbered(5,"C"), <<"W">>, <<"W">>,
       Numbered(3,"B"), Numbered(7,"D"), Numbered(7,"C") >>,
    << Numbered(7,"C"), Numbered(7,"D"), Numbered(3,"B"), <<"W">>, <<"W">>,
       Numbered(5,"C"), Numbered(9,"D"), Numbered(1,"B"), <<"R">>, <<"E">>,
       Numbered(5,"C"), Numbered(1,"B"), Numbered(9,"D") >> }

\* the tiles a caller swaps in or appends
EditTiles == {Flower, Invalid, Numbered(5,"D"), YearTile}

\* the positions where a tile occurs for the first time
FirstPositions(hand) == {i \in DOMAIN hand : \A j \in 1..(i - 1) : hand[j] # hand[i]}

ReplaceAt(hand, i, t) == [hand EXCEPT ![i] = t]

RemoveAt(hand, i) == SubSeq(hand, 1, i - 1) \o SubSeq(hand, i + 1, Len(hand))

\* a base hand, or a base hand with one tile replaced, removed or appended
Hands ==
  BaseHands
  \cup {ReplaceAt(h, i, t) : <<h, i, t>> \in
          {x \in BaseHands \X (1..15) \X EditTiles : x[2] \in FirstPositions(x[1])}}
  \cup {RemoveAt(h, i) : <<h, i>> \in
          {x \in BaseHands \X (1..15) : x[2] \in FirstPositions(x[1])}}
  \cup {Append(h, t) : <<h, t>> \in BaseHands \X EditTiles}
  \cup {<<>>}

\* the pattern_info dicts passed to the matcher: the catalogue's, and the
\* '22 44 666 888 DDDD' shape under a two-suit requirement
PatternInputs ==
  Elems(year_rules_2024)
  \cup {[p EXCEPT !.suit_requirement = "any_2_suits"] :
          p \in {q \in Elems(year_rules_2024) : q.pattern_id = "2468_22_44_666_888_DDDD"}}

\* the suit_requirement tags _check_suit_requirements tells apart, and one
\* it does not
Requirements ==
  {"any_1_suit", "any_2_suits", "any_3_suits", "any_1_or_2_suits", "any_1_or_3_suits",
   "any_2_or_3_suits", "any_1_suit_matching_dragons", "any_2_suits_matching_dragons",
   "any_1_suit_opposite_dragons", "any_5_consec_opposite_dragons", "specific_numbers",
   "any_3_dragons", "any_2_dragons", "any"}

\* the {} the tests pass as pattern_info
EmptyInfo == [specific_numbers |-> <<>>]

\* the strings passed to _parse_pattern and, parsed, to _can_satisfy_pattern:
\* every whitespace-separated token of the catalogue, and 'FFF'
Tokens ==
  UNION {Elems(Split(year_rules_2024[k].pattern)) : k \in DOMAIN year_rules_2024}
  \cup {Rep("F", 3)}

\* the patterns passed to _parse_pattern: the catalogue's, and single tokens
ParseInputs == {year_rules_2024[k].pattern : k \in DOMAIN year_rules_2024} \cup Tokens

\* the specific_numbers lists of the catalogue and of test_specific_numbers,
\* and the empty list of an entry without the key
NumberLists == {year_rules_2024[k].specific_numbers : k \in DOMAIN year_rules_2024}

(***************************************************************************)
(* State machine: a process with its hash seed, a caller holding a hand    *)
(* and the last analysis it was given, and one action per entry point.     *)
(***************************************************************************)

NoCall == [op |-> "none"]

NoResult == [status |-> "none"]

Init ==
  /\ tiles \in Hands
  /\ hashSeed \in Seeds
  /\ call = NoCall
  /\ ret = NoResult
  /\ hand_analysis = NoResult

\* HandEvaluator.evaluate_hand(tiles, year); the caller keeps the analysis
Evaluate(year) ==
  /\ call.op \in {"none", "evaluate_hand"}
  /\ call' = [op |-> "evaluate_hand", year |-> year]
  /\ ret' = EvaluateHand(tiles, year, hashSeed)
  /\ hand_analysis' = IF ret'.status = "returned" THEN ret' ELSE hand_analysis
  /\ UNCHANGED <<tiles, hashSeed>>

\* the server process is started again: a new hash seed is drawn
Restart ==
  /\ \E s \in Seeds : s # hashSeed /\ hashSeed' = s
  /\ UNCHANGED <<tiles, call, ret, hand_analysis>>

\* HandEvaluator._check_pattern_match(tiles, pattern_info), on valid tiles
CheckPattern(pattern_info) ==
  /\ call.op = "none"
  /\ InvalidTiles(tiles) = <<>>
  /\ call' = [op |-> "_check_pattern_match", pattern_info |-> pattern_info]
  /\ ret' = [status |-> "returned", value |-> CheckPatternMatch(tiles, pattern_info)]
  /\ UNCHANGED <<tiles, hashSeed, hand_analysis>>

\* HandEvaluator._check_suit_requirements(tiles, suit_requirement, {})
CheckSuit(suit_requirement) ==
  /\ call.op = "none"
  /\ InvalidTiles(tiles) = <<>>
  /\ call' = [op |-> "_check_suit_requirements", suit_requirement |-> suit_requirement]
  /\ ret' = [status |-> "returned",
             value |-> CheckSuitRequirements(tiles, suit_requirement, EmptyInfo)]
  /\ UNCHANGED <<tiles, hashSeed, hand_analysis>>

\* TileCalculator._find_best_discard(tiles, hand_analysis, year)
BestDiscard(year) ==
  /\ call.op \in {"none", "evaluate_hand"}
  /\ InvalidTiles(tiles) = <<>>
  /\ call' = [op |-> "_find_best_discard", year |-> year]
  /\ ret' = FindBestDiscard(tiles, hand_analysis, year)
  /\ UNCHANGED <<tiles, hashSeed, hand_analysis>>

\* HandEvaluator._parse_pattern(pattern)
Parse(pattern) ==
  /\ call.op = "none"
  /\ call' = [op |-> "_parse_pattern", pattern |-> pattern]
  /\ ret' = [status |-> "returned", value |-> ParsePattern(pattern)]
  /\ UNCHANGED <<tiles, hashSeed, hand_analysis>>

\* HandEvaluator._can_satisfy_pattern(tiles, _parse_pattern(pattern), {}), on
\* valid tiles
CanSatisfy(pattern) ==
  /\ call.op = "none"
  /\ InvalidTiles(tiles) = <<>>
  /\ call' = [op |-> "_can_satisfy_pattern", pattern |-> pattern]
  /\ ret' = [status |-> "returned",
             value |-> CanSatisfyPattern(tiles, ParsePattern(pattern), EmptyInfo)]
  /\ UNCHANGED <<tiles, hashSeed, hand_analysis>>

\* HandEvaluator._check_suit_requirements(tiles, 'specific_numbers',
\* {'specific_numbers': [...]}), on valid tiles
CheckNumbers(specific_numbers) ==
  /\ call.op = "none"
  /\ InvalidTiles(tiles) = <<>>
  /\ call' = [op |-> "_check_suit_requirements", suit_requirement |-> "specific_numbers",
              specific_numbers |-> specific_numbers]
  /\ ret' = [status |-> "returned",
             value |-> CheckSuitRequirements(tiles, "specific_numbers",
                                             [specific_numbers |-> specific_numbers])]
  /\ UNCHANGED <<tiles, hashSeed, hand_analysis>>

\* TileCalculator._calculate_discard_score(tile, tiles, hand_analysis, year),
\* for a tile of an evaluated hand and the year it was evaluated for
DiscardScore(tile) ==
  /\ call.op = "evaluate_hand"
  /\ ret.status = "returned"
  /\ InList(tile, tiles)
  /\ call' = [op |-> "_calculate_discard_score", tile |-> tile, year |-> call.year]
  /\ ret' = [status |-> "returned",
             value |-> CalculateDiscardScore(tile, tiles, hand_analysis, call.year)]
  /\ UNCHANGED <<tiles, hashSeed, hand_analysis>>

\* TileCalculator._calculate_draw_score(tile, tiles, hand_analysis, year), in
\* half points, for an evaluated hand
DrawScore(tile) ==
  /\ call.op = "evaluate_hand"
  /\ ret.status = "returned"
  /\ call' = [op |-> "_calculate_draw_score", tile |-> tile, year |-> call.year]
  /\ ret' = [status |-> "returned",
             value |-> CalculateDrawScore(tile, tiles, hand_analysis, call.year)]
  /\ UNCHANGED <<tiles, hashSeed, hand_analysis>>

\* TileCalculator._find_best_draws(tiles, hand_analysis, year) after
\* evaluate_hand, on valid tiles; with {} for the analysis when it raised
BestDraws ==
  /\ call.op = "evaluate_hand"
  /\ InvalidTiles(tiles) = <<>>
  /\ call' = [op |-> "_find_best_draws", year |-> call.year]
  /\ ret' = [status |-> "returned",
             value |-> FindBestDraws(tiles, hand_analysis, call.year, hashSeed)]
  /\ UNCHANGED <<tiles, hashSeed, hand_analysis>>

\* TileCalculator.get_recommendations(tiles, hand_analysis, year) after
\* evaluate_hand; with {} for the analysis when it raised
Recommend ==
  /\ call.op = "evaluate_hand"
  /\ call' = [op |-> "get_recommendations", year |-> call.year]
  /\ ret' = GetRecommendations(tiles, hand_analysis, call.year, hashSeed)
  /\ UNCHANGED <<tiles, hashSeed, hand_analysis>>

Next ==
  \/ \E year \in Years : Evaluate(year)
  \/ Restart
  \/ \E pattern_info \in PatternInputs : CheckPattern(pattern_info)
  \/ \E suit_requirement \in Requirements : CheckSuit(suit_requirement)
  \/ \E year \in Years : BestDiscard(year)

Spec == Init /\ [][Next]_vars

\* the recommendation engine behind the evaluator
CalculatorNext ==
  \/ \E year \in Years : Evaluate(year)
  \/ Restart
  \/ \E tile \in Elems(valid_tiles) : DiscardScore(tile)
  \/ \E tile \in Elems(valid_tiles) : DrawScore(tile)
  \/ BestDraws
  \/ Recommend

CalculatorSpec == Init /\ [][CalculatorNext]_vars

\* the group matcher called on its own, one token at a time
GroupNext == \E pattern \in Tokens : CanSatisfy(pattern)

GroupSpec == Init /\ [][GroupNext]_vars

\* the pattern parser called on its own; the hand plays no part in it
ParserInit == Init /\ tiles = <<>>

ParserNext == \E pattern \in ParseInputs : Parse(pattern)

ParserSpec == ParserInit /\ [][ParserNext]_vars

\* the group matcher called on whole patterns and on single tokens; the hash
\* seed plays no part in it
CoverInit == Init /\ hashSeed = 1

CoverNext == \E pattern \in ParseInputs : CanSatisfy(pattern)

CoverSpec == CoverInit /\ [][CoverNext]_vars

\* the 'specific_numbers' requirement called on its own
NumbersNext == \E specific_numbers \in NumberLists : CheckNumbers(specific_numbers)

NumbersSpec == Init /\ [][NumbersNext]_vars

(***************************************************************************)
(* Properties                                                              *)
(***************************************************************************)

\* the tiles of the hand that are none of the 35 tiles of the tile set
Offending(hand) == {i \in DOMAIN hand : \A k \in DOMAIN valid_tiles : valid_tiles[k] # hand[i]}

Evaluated == call.op = "evaluate_hand"

Points(analysis) == {analysis.potential_hands[i].points : i \in DOMAIN analysis.potential_hands}

\* C1: evaluate_hand on 13 valid tiles returns an analysis whose hand_value is
\* the highest 'points' of its own potential_hands, and is 0 exactly when
\* that list is empty.
C1_HandValueIsMaxPoints ==
  (Evaluated /\ Len(tiles) = 13 /\ Offending(tiles) = {}) =>
    /\ ret.status = "returned"
    /\ (ret.hand_value = 0) <=> (ret.potential_hands = <<>>)
    /\ ret.potential_hands # <<>> =>
         /\ ret.hand_value \in Points(ret)
         /\ \A p \in Points(ret) : p <= ret.hand_value

\* an analysis that reports patterns of different point values
C1_Witness ==
  /\ Evaluated /\ ret.status = "returned"
  /\ Cardinality(Points(ret)) >= 2
  /\ ret.hand_value = 75

SizeError ==
  [status |-> "raised", error |-> "ValueError",
   message |-> "Hand must contain exactly 13 tiles"]

InvalidTileError == ret.status = "raised" /\ ret.message = "Invalid tiles found"

\* C3: on 13 tiles evaluate_hand raises the invalid-tile error exactly when
\* some tile is outside the tile set, and the error lists every such tile of
\* the hand, in hand order.
C3_InvalidTilesAllListed ==
  (Evaluated /\ Len(tiles) = 13) =>
    /\ InvalidTileError <=> (Offending(tiles) # {})
    /\ InvalidTileError =>
         /\ Len(ret.invalid_tiles) = Cardinality(Offending(tiles))
         /\ \A i \in Offending(tiles) :
              ret.invalid_tiles[Cardinality({j \in Offending(tiles) : j <= i})] = tiles[i]

\* a 13-tile hand with two different tiles outside the tile set
C3_Witness ==
  /\ Evaluated /\ Len(tiles) = 13 /\ InvalidTileError
  /\ Cardinality({tiles[i] : i \in Offending(tiles)}) = 2

\* C4: two evaluate_hand calls with the same tiles and the same year give the
\* same analysis in every field (the tiles of a behaviour never change).
C4_SameInputSameAnalysis ==
  [][(Evaluated /\ call'.op = "evaluate_hand" /\ call'.year = call.year) => ret' = ret]_vars

\* C5: a valid 13-tile hand that satisfies a catalogue pattern with
\* joker_allowed still satisfies it after one copy of any of its non-flower
\* tiles is replaced by 'F'.
C5_WildcardMonotone ==
  (/\ call.op = "_check_pattern_match"
   /\ Len(tiles) = 13
   /\ \E k \in DOMAIN year_rules_2024 : year_rules_2024[k] = call.pattern_info
   /\ call.pattern_info.joker_allowed
   /\ ret.value) =>
    \A i \in DOMAIN tiles :
      tiles[i] # Flower => CheckPatternMatch(ReplaceAt(tiles, i, Flower), call.pattern_info)

\* C6: a pattern whose joker_allowed flag is false is not satisfied by a hand
\* that holds an 'F', neither in the matcher nor in evaluate_hand's list.
C6_NoJokerRejectsFlower ==
  /\ (/\ call.op = "_check_pattern_match"
      /\ ~call.pattern_info.joker_allowed
      /\ \E i \in DOMAIN tiles : tiles[i] = Flower) => ~ret.value
  /\ (/\ Evaluated /\ ret.status = "returned"
      /\ \E i \in DOMAIN tiles : tiles[i] = Flower) =>
       \A i \in DOMAIN ret.potential_hands :
         \A k \in DOMAIN year_rules_2024 :
           year_rules_2024[k].pattern_id = ret.potential_hands[i].pattern_id =>
             year_rules_2024[k].joker_allowed

\* a hand with an 'F' that covers every group of a no-joker pattern and meets
\* its suit requirement, and is rejected
C6_Witness ==
  /\ call.op = "_check_pattern_match"
  /\ ~call.pattern_info.joker_allowed
  /\ \E i \in DOMAIN tiles : tiles[i] = Flower
  /\ CanSatisfyPattern(tiles, ParsePattern(call.pattern_info.pattern), call.pattern_info)
  /\ CheckSuitRequirements(tiles, call.pattern_info.suit_requirement, call.pattern_info)
  /\ ~ret.value

\* the suits of the numbered tiles 1B..9B, 1C..9C, 1D..9D of the hand
SuitsSpanned(hand) ==
  {s \in SuitLetters : \E n \in 1..9 : \E i \in DOMAIN hand : hand[i] = Numbered(n, s)}

ExactlySuits(n) ==
  CASE n = 1 -> "any_1_suit" [] n = 2 -> "any_2_suits" [] n = 3 -> "any_3_suits"

\* C7: for a hand with a numbered tile, _check_suit_requirements holds for
\* 'any_N_suits' (N in 1..3) exactly when the numbered tiles span N suits.
C7_ExactSuitCount ==
  (call.op = "_check_suit_requirements" /\ SuitsSpanned(tiles) # {}) =>
    \A n \in 1..3 :
      call.suit_requirement = ExactlySuits(n) =>
        (ret.value <=> Cardinality(SuitsSpanned(tiles)) = n)

\* a hand of exactly two suits asked for 'any_2_suits', and accepted
C7_Witness ==
  /\ call.op = "_check_suit_requirements"
  /\ call.suit_requirement = "any_2_suits"
  /\ Cardinality(SuitsSpanned(tiles)) = 2
  /\ ret.value

\* three 2s, four 6s and four 8s of one suit and three of its dragon
ThreeTwosHand ==
  /\ Len(tiles) = 14
  /\ \E s \in SuitLetters :
       /\ CountOf(tiles, Numbered(2, s)) = 3
       /\ CountOf(tiles, Numbered(6, s)) = 4
       /\ CountOf(tiles, Numbered(8, s)) = 4
       /\ CountOf(tiles, dragon_associations(s)) = 3

EvenDragonShape ==
  /\ call.op = "_check_pattern_match"
  /\ call.pattern_info.pattern_id = "2468_22_44_666_888_DDDD"

\* C8 as stated: that hand satisfies '22 44 666 888 DDDD' under
\* any_1_suit_matching_dragons, and not under a two-suit requirement.
C8_AsStated ==
  (ThreeTwosHand /\ EvenDragonShape) =>
    (ret.value <=> call.pattern_info.suit_requirement = "any_1_suit_matching_dragons")

\* C8, amended: that hand meets the requirement any_1_suit_matching_dragons
\* but satisfies '22 44 666 888 DDDD' under neither that requirement nor a
\* two-suit one.
C8_ThreeTwosHandNotSatisfied ==
  /\ (ThreeTwosHand /\ EvenDragonShape) => ~ret.value
  /\ (/\ ThreeTwosHand
      /\ call.op = "_check_suit_requirements"
      /\ call.suit_requirement = "any_1_suit_matching_dragons") => ret.value

\* the hand checked against the catalogue's entry and refused
C8_Witness ==
  /\ ThreeTwosHand /\ EvenDragonShape
  /\ call.pattern_info.suit_requirement = "any_1_suit_matching_dragons"
  /\ ~ret.value

\* C9: a 13-tile hand that one more tile would make a complete instance of a
\* catalogue pattern (groups and suit requirement met) is listed for that
\* pattern in potential_hands.
C9_OneTileAwayIsReported ==
  (Evaluated /\ ret.status = "returned" /\ call.year = 2024) =>
    \A k \in DOMAIN year_rules_2024 :
      (\E t \in Elems(valid_tiles) : CheckPatternMatch(Append(tiles, t), year_rules_2024[k])) =>
        \E i \in DOMAIN ret.potential_hands :
          ret.potential_hands[i].pattern_id = year_rules_2024[k].pattern_id

\* the discard score of the tile at position i of the hand, for the call made
ScoreAt(i) == CalculateDiscardScore(tiles[i], tiles, hand_analysis, call.year)

\* the position of the returned tile's first occurrence
ChosenAt == CHOOSE i \in DOMAIN tiles : tiles[i] = ret.value /\ \A j \in 1..(i - 1) : tiles[j] # ret.value

\* C10: for a non-empty hand _find_best_discard returns a tile of the hand
\* whose discard score is minimal over the hand; of several distinct tiles
\* with that score, the one that occurs first in the list.
C10_BestDiscardIsFirstLowest ==
  (call.op = "_find_best_discard" /\ tiles # <<>>) =>
    /\ ~ret.none
    /\ \E i \in DOMAIN tiles : tiles[i] = ret.value
    /\ \A i \in DOMAIN tiles : ScoreAt(ChosenAt) <= ScoreAt(i)
    /\ \A i \in DOMAIN tiles : ScoreAt(i) = ScoreAt(ChosenAt) => ChosenAt <= i

\* a hand where two different tiles share the lowest score
C10_Witness ==
  /\ call.op = "_find_best_discard" /\ tiles # <<>> /\ ~ret.none
  /\ hand_analysis.status = "returned"
  /\ \E i \in DOMAIN tiles : tiles[i] # ret.value /\ ScoreAt(i) = ScoreAt(ChosenAt)

\* the hand with one more copy of the tile scored
OneMore == Append(tiles, call.tile)

\* the adjacency, year and hand-structure components of the score do not
\* change with the added copy
OtherComponentsEqual ==
  /\ CalculateSequencePotential(call.tile, OneMore)
       = CalculateSequencePotential(call.tile, tiles)
  /\ CalculateYearSpecificValue(call.tile, OneMore, call.year)
       = CalculateYearSpecificValue(call.tile, tiles, call.year)
  /\ CalculateStructureValue(call.tile, OneMore, hand_analysis)
       = CalculateStructureValue(call.tile, tiles, hand_analysis)

\* C11: for a numeral tile, with the other components of the score equal, the
\* discard score held twice is 5 above the score held once, the score held
\* three times is 6 above the score held twice, and further copies add
\* nothing.
C11_MultiplicityRewarded ==
  (/\ call.op = "_calculate_discard_score"
   /\ EndsWithSuit(call.tile)
   /\ OtherComponentsEqual) =>
    CalculateDiscardScore(call.tile, OneMore, hand_analysis, call.year) - ret.value
      = (CASE CountOf(tiles, call.tile) = 1 -> 5
           [] CountOf(tiles, call.tile) = 2 -> 6
           [] OTHER -> 0)

\* a numeral tile held twice, scored, and worth 6 more with a third copy
C11_Witness ==
  /\ call.op = "_calculate_discard_score"
  /\ EndsWithSuit(call.tile)
  /\ OtherComponentsEqual
  /\ CountOf(tiles, call.tile) = 2
  /\ CalculateDiscardScore(call.tile, OneMore, hand_analysis, call.year) = ret.value + 6

\* the numeral tiles of the hand
NumeralsHeld == {tiles[i] : i \in {j \in DOMAIN tiles : EndsWithSuit(tiles[j])}}

FlowerScored ==
  /\ call.op = "_calculate_discard_score"
  /\ call.tile = Flower
  /\ call.year = 2024

\* copies of a tile as the discard score counts them: three and more alike
CopiesCounted(tile) == IF CountOf(tiles, tile) >= 3 THEN 3 ELSE CountOf(tiles, tile)

\* both adjacent ranks of the tile's suit are in the hand
BothNeighboursHeld(tile) == PresentAt(tile, tiles, {-1, 1}) = 2

\* C12 as stated: in year 2024 the discard score of 'F' is strictly greater
\* than the discard score of every numeral tile of the hand.
C12_AsStated ==
  FlowerScored =>
    \A n \in NumeralsHeld : ret.value > CalculateDiscardScore(n, tiles, hand_analysis, 2024)

\* C12, amended: in year 2024 the discard score of 'F' is strictly greater
\* than the discard score of every numeral tile of the hand that is held in
\* no more copies than 'F' (copies beyond the third not counted) and does not
\* have both adjacent ranks of its suit in the hand.
C12_FlowerAboveComparableNumerals ==
  FlowerScored =>
    \A n \in NumeralsHeld :
      (CopiesCounted(n) <= CopiesCounted(Flower) /\ ~BothNeighboursHeld(n)) =>
        ret.value > CalculateDiscardScore(n, tiles, hand_analysis, 2024)

\* 'F' scored in a hand with a comparable numeral below it and another
\* numeral, held in more copies, not below it
C12_Witness ==
  /\ FlowerScored
  /\ \E n \in NumeralsHeld :
       /\ CopiesCounted(n) <= CopiesCounted(Flower) /\ ~BothNeighboursHeld(n)
       /\ ret.value > CalculateDiscardScore(n, tiles, hand_analysis, 2024)
  /\ \E n \in NumeralsHeld :
       /\ CopiesCounted(n) > CopiesCounted(Flower)
       /\ ret.value <= CalculateDiscardScore(n, tiles, hand_analysis, 2024)

\* the draw score, in half points, of a tile for the hand and analysis of the
\* call made
DrawScoreOf(tile) == CalculateDrawScore(tile, tiles, hand_analysis, call.year)

DrawsFound == call.op = "_find_best_draws" /\ hand_analysis.status = "returned"

\* C13: the draws returned are tiles of analysis.tiles_to_win, in
\* non-increasing order of draw score, and no tile of that list that was left
\* out has a strictly higher draw score than a returned one.
C13_DrawsComeFromTilesToWin ==
  DrawsFound =>
    /\ Len(ret.value) <= 8
    /\ \A i \in DOMAIN ret.value : InList(ret.value[i], hand_analysis.tiles_to_win)
    /\ \A i \in DOMAIN ret.value : \A j \in DOMAIN ret.value :
         i < j => DrawScoreOf(ret.value[i]) >= DrawScoreOf(ret.value[j])
    /\ \A k \in DOMAIN hand_analysis.tiles_to_win :
         ~InList(hand_analysis.tiles_to_win[k], ret.value) =>
           \A i \in DOMAIN ret.value :
             DrawScoreOf(hand_analysis.tiles_to_win[k]) <= DrawScoreOf(ret.value[i])

\* the 27 numeral tiles
Numerals == {Numbered(n, s) : n \in 1..9, s \in SuitLetters}

FlowerDrawScored ==
  /\ call.op = "_calculate_draw_score"
  /\ call.tile = Flower
  /\ call.year = 2024

C15_EmptyHandNoRecommendation ==
  (call.op = "get_recommendations" /\ tiles = <<>>) => ret = NoRecommendation

\* the number of tiles a group asks for
GroupNeed(component) ==
  CASE component.type \in {"year", "wind", "dragon"} -> 1
    [] component.type = "specific_numbers" -> 2
    [] OTHER -> component.count

\* the number of tiles of the hand that match a group that is not a flower
\* group, counted by class as the matcher counts them
GroupHave(hand, component) ==
  CASE component.type = "year" -> Available(hand, YearTile)
    [] component.type \in {"wind", "dragon"} -> Available(hand, component.value)
    [] component.type \in {"dragon_kong", "dragon_pung", "dragon_pair", "dragon_single"} ->
         AvailableOf(hand, Dragons)
    [] component.type = "all_winds" -> AvailableOf(hand, Winds)
    [] component.type = "specific_numbers" -> NumberCount(hand, Elems(component.numbers))
    [] OTHER -> NumberCount(hand, {component.number})

\* the groups checked in declaration order with w wildcards still unused: a
\* flower group takes its count from w, any other group takes its shortfall
RECURSIVE CoveredWithTopUp(_, _, _)
CoveredWithTopUp(hand, components, w) ==
  IF components = <<>> THEN TRUE
  ELSE LET c == Head(components)
           short == IF c.type = "flower" THEN c.count
                    ELSE IF GroupHave(hand, c) >= GroupNeed(c) THEN 0
                    ELSE GroupNeed(c) - GroupHave(hand, c)
       IN short <= w /\ CoveredWithTopUp(hand, Tail(components), w - short)

\* C16: a hand whose groups are all covered when the shortfall of each group
\* is taken from the wildcards 'F' still unused, and which meets the suit
\* requirement, satisfies a pattern with joker_allowed.
C16_ShortfallTakenFromWildcards ==
  (/\ call.op = "_check_pattern_match"
   /\ call.pattern_info.joker_allowed
   /\ CheckSuitRequirements(tiles, call.pattern_info.suit_requirement, call.pattern_info)
   /\ CoveredWithTopUp(tiles, ParsePattern(call.pattern_info.pattern), CountOf(tiles, Flower))) =>
    ret.value

GroupChecked == call.op = "_can_satisfy_pattern"

NEWS == <<"N", "E", "W", "S">>

\* a token written with wind letters only, other than 'NEWS'
WindLettersOnly(token) ==
  /\ token # <<>>
  /\ token # NEWS
  /\ \A i \in DOMAIN token : InList(<<token[i]>>, Winds)

\* C17: a hand that covers a token of wind letters ('NN', 'EEE', 'EW', ...)
\* holds, of each wind, at least as many tiles as the letter occurs in the
\* token.
C17_WindTokenNeedsItsWinds ==
  (GroupChecked /\ WindLettersOnly(call.pattern) /\ ret.value) =>
    \A k \in DOMAIN Winds : CountOf(tiles, Winds[k]) >= CountOf(call.pattern, Winds[k][1])

\* C18: a hand that covers the token 'NEWS' holds at least one tile of each
\* of the four winds.
C18_NewsNeedsEachWind ==
  (GroupChecked /\ call.pattern = NEWS /\ ret.value) =>
    \A k \in DOMAIN Winds : CountOf(tiles, Winds[k]) >= 1

\* the catalogue's literals of distinct digits
DigitLiterals == {<<"2", "4">>, <<"4", "6">>, <<"3", "6", "9">>, <<"1", "2", "3">>}

\* the ranks of the hand's numbered tiles
RanksHeld == {TileNumber(tiles[i]) : i \in {j \in DOMAIN tiles : EndsWithSuit(tiles[j])}}

\* C19: a hand that covers one of the tokens '24', '46', '369', '123' holds
\* a numbered tile of each digit of the token.
C19_EachListedDigitHeld ==
  (GroupChecked /\ call.pattern \in DigitLiterals /\ ret.value) =>
    \A i \in DOMAIN call.pattern : IntOfChar(call.pattern[i]) \in RanksHeld

\* C20: _parse_pattern returns one group for every whitespace-separated token
\* of the pattern, or fails.
C20_OneGroupPerToken ==
  call.op = "_parse_pattern" =>
    \/ ret.status # "returned"
    \/ Len(ret.value) = Len(Split(call.pattern))

\* a token of two or more zeros
ZeroRun(token) == Len(token) > 1 /\ \A i \in DOMAIN token : token[i] = "0"

\* C21: a run of n zeros ('000', '0000') is covered by a hand that holds at
\* least n White Dragon tiles '0'.
C21_ZeroRunIsWhiteDragons ==
  (GroupChecked /\ ZeroRun(call.pattern) /\ CountOf(tiles, <<"0">>) >= Len(call.pattern)) =>
    ret.value

SuitChecked == call.op = "_check_suit_requirements"

\* the dragon types the hand holds
DragonTypes == {Dragons[k] : k \in {j \in DOMAIN Dragons : InList(Dragons[j], tiles)}}

\* C22: for a hand with numbered tiles 'any_3_dragons' holds only with all
\* three dragon types in the hand, and 'any_2_dragons' only with exactly two.
C22_DragonTypesCounted ==
  (SuitChecked /\ NumberedTiles(tiles) # <<>> /\ ret.value) =>
    /\ call.suit_requirement = "any_3_dragons" => Cardinality(DragonTypes) = 3
    /\ call.suit_requirement = "any_2_dragons" => Cardinality(DragonTypes) = 2

\* the fixed table: Cracks with Red, Bams with Green, Dots with White
AssociatedDragon(s) == IF s = "C" THEN <<"R">> ELSE IF s = "B" THEN <<"G">> ELSE <<"0">>

\* the numbered tiles are of one suit and the hand holds that suit's dragon
OneSuitWithItsDragon ==
  /\ Cardinality(SuitsSpanned(tiles)) = 1
  /\ \A s \in SuitsSpanned(tiles) : InList(AssociatedDragon(s), tiles)

\* C23: 'any_1_suit_matching_dragons' holds exactly when the numbered tiles
\* of the hand are of one suit and the hand holds at least one copy of that
\* suit's dragon (C with R, B with G, D with 0).
C23_MatchingDragonRequired ==
  (SuitChecked /\ call.suit_requirement = "any_1_suit_matching_dragons") =>
    (ret.value <=> OneSuitWithItsDragon)

\* a one-suit hand that holds its own dragon and another one, accepted
C23_Witness ==
  /\ SuitChecked /\ call.suit_requirement = "any_1_suit_matching_dragons"
  /\ OneSuitWithItsDragon
  /\ Cardinality(DragonTypes) = 2
  /\ ret.value

\* C24: 'any_1_suit_opposite_dragons' holds only when the numbered tiles of
\* the hand are of one suit, the hand holds a dragon, and it does not hold
\* that suit's own dragon.
C24_OppositeForbidsMatching ==
  (SuitChecked /\ call.suit_requirement = "any_1_suit_opposite_dragons" /\ ret.value) =>
    /\ Cardinality(SuitsSpanned(tiles)) = 1
    /\ DragonTypes # {}
    /\ ~OneSuitWithItsDragon

\* C25: 'any_5_consec_opposite_dragons' holds for every hand whose numbered
\* tiles include five consecutive ranks, in whatever number of copies.
C25_FiveConsecutiveRanks ==
  (/\ SuitChecked
   /\ call.suit_requirement = "any_5_consec_opposite_dragons"
   /\ \E r \in 1..5 : \A d \in 0..4 : r + d \in RanksHeld) =>
    ret.value

\* C26: with a non-empty specific_numbers list the 'specific_numbers'
\* requirement holds exactly when the ranks of the hand's numbered tiles are
\* the listed numbers and no others.
C26_OnlyListedNumbers ==
  (/\ SuitChecked
   /\ call.suit_requirement = "specific_numbers"
   /\ call.specific_numbers # <<>>) =>
    (ret.value <=> RanksHeld = Elems(call.specific_numbers))

\* C27: for every hand that holds the ranks r, r+1 and r+2 of one suit, the
\* triple of those three tiles is in hand_structure.potential_sequences.
C27_RunsDetected ==
  (Evaluated /\ ret.status = "returned") =>
    \A s \in SuitLetters : \A r \in 1..7 :
      (\A d \in 0..2 : InList(Numbered(r + d, s), tiles)) =>
        InList(<<Numbered(r, s), Numbered(r + 1, s), Numbered(r + 2, s)>>,
               ret.hand_structure.potential_sequences)

WindsPatternListed ==
  \E i \in DOMAIN ret.potential_hands :
    ret.potential_hands[i].pattern_id = "winds_NNNN_EEE_WWW_SSSS"

WindTilesHeld == Cardinality({i \in DOMAIN tiles : InList(tiles[i], Winds)})

FlowerGroupNoJoker(pattern_info) ==
  /\ ~pattern_info.joker_allowed
  /\ \E i \in DOMAIN ParsePattern(pattern_info.pattern) :
       ParsePattern(pattern_info.pattern)[i].type = "flower"

GroupsChecked == ParsePattern(call.pattern)

\* the total of the hand a group is compared with: the count of one rank, of
\* one wind or dragon, of all dragons, of all winds, of the flowers, ...
ClassOf(component) ==
  CASE component.type = "numbered_pattern" -> <<"number", component.number>>
    [] component.type \in {"dragon_kong", "dragon_pung", "dragon_pair", "dragon_single"} ->
         <<"dragons">>
    [] component.type \in {"wind", "dragon"} -> <<component.type, component.value>>
    [] OTHER -> <<component.type>>

\* the groups that no group of the same class exceeds
LargestOfClass ==
  {i \in DOMAIN GroupsChecked :
     \A j \in DOMAIN GroupsChecked :
       ClassOf(GroupsChecked[j]) = ClassOf(GroupsChecked[i]) =>
         GroupNeed(GroupsChecked[j]) <= GroupNeed(GroupsChecked[i])}

====
